---- MODULE Spec2Model ----
(***************************************************************************)
(* A model of the T.E.S.T. runner (src/python/test): the classification    *)
(* of one CSV row (EndpointResult.from_row_data), the job builder          *)
(* (prepare_jobs), the bounded worker pool with its cleanup-error          *)
(* reclassification (execute_jobs), and the reconciliation of the output   *)
(* artifacts into the molecule x endpoint grid (TESTRunner.run), main()    *)
(* of run_test.py around them, and the helpers of io.py: FileWaiter.wait   *)
(* and ResultsReader.read.                                                 *)
(*                                                                         *)
(* Python strings are sequences of one-character strings, so that strip,   *)
(* lower, replace, split, substring search and the float / int parsers are *)
(* computed, not assumed.  Optional values are records with a "none" flag. *)
(***************************************************************************)
EXTENDS Integers, Sequences, FiniteSets, TLC

VARIABLES
    \* ---- from_row_data, called on one row
    fr_row,        \* the row handed to from_row_data
    fr_out,        \* what the call returned ("called" FALSE before the call)
    \* ---- TESTRunner.__init__ / prepare_jobs
    pj_calculate,  \* args.calculate: None or the raw comma-separated text
    pj_uid,        \* unique_id of the run
    pj_xvfb,       \* whether xvfb_path is set
    pj_pc,         \* "init", "filtered", "prepared", "raised"
    pj_endpoints,  \* self.endpoints_desc keys, in dict order
    pj_jobs,       \* the list prepare_jobs returned
    \* ---- execute_jobs and the thread pool
    ex_workers,    \* args.workers
    ex_timeout,    \* whether args.timeout is set
    ex_jobs,       \* the jobs handed to execute_jobs
    ex_pc,         \* position of the calling thread
    ex_i,          \* index of the job being submitted / collected
    ex_state,      \* per job: "new", "queued", "running", "finished"
    ex_future,     \* per job: what its future holds
    ex_file,       \* per job: state of the artifact at out_path
    ex_results,    \* the results mapping, as a sequence of entries
    ex_poll,       \* number of checks made by the current polling loop
    ex_seen,       \* per job: what each poll of its artifact observed
    \* ---- reconciliation in TESTRunner.run
    rc_smiles,     \* smiles_all
    rc_results,    \* results of execute_jobs: sequence of [endpoint, out_path, rc]
    rc_disk,       \* per endpoint position: the artifact on disk
    rc_pc,         \* "start", "loop", "built"
    rc_i,          \* position in results.items()
    rc_map,        \* molecules_map: 1..N -> sequence of <<endpoint, EndpointResult>>
    rc_final,      \* ordered_molecules once built
    \* ---- main() of run_test.py around TESTRunner
    mn_args,       \* the parsed command line
    mn_pc,         \* position of main: "start" ... "exit"
    mn_cause,      \* what was raised, "none" while nothing was
    mn_tmpdir,     \* the run's temporary directory: "none", "exists", "removed"
    mn_endpoints,  \* self.endpoints_desc keys, in dict order
    mn_jobs,       \* the jobs prepare_jobs built
    mn_started,    \* number of external processes started
    mn_disk,       \* per job: the artifact left at its out_path
    mn_results,    \* what execute_jobs returned
    mn_molecules,  \* ordered_molecules, the typed objects
    mn_final,      \* the dict run() returned, as main holds it
    mn_json,       \* the JSON report written, <<>> while none is
    mn_csv,        \* the CSV report written, <<>> while none is
    mn_exit,       \* the exit status, -1 while the process runs
    \* ---- FileWaiter.wait (io.py)
    fw_file,       \* per listed path: "absent", "dir", "empty", "data"
    fw_timeout,    \* self.timeout_sec: None or an integer number of seconds
    fw_pc,         \* "start", "loop", "poll", "decide", "done"
    fw_k,          \* position of the for loop in self.paths
    fw_good,       \* all_good
    fw_now,        \* the clock, in poll intervals (saturating at MaxClock)
    fw_deadline,   \* deadline, in poll intervals
    fw_ret,        \* "none", "true", "false": what wait returned
    fw_polls,      \* polls begun so far (saturating)
    fw_sleeps,     \* calls of time.sleep so far (saturating)
    fw_started,    \* the clock when the current poll began
    fw_first,      \* "none", "good", "bad": what the first poll found
    fw_intime,     \* some poll begun not later than the deadline found all files
    \* ---- ResultsReader.read (io.py)
    rr_dir,        \* os.listdir(output_dir) in its order: [name, art] entries
    rr_eps,        \* the keys of endpoints_desc, in iteration order
    rr_timeout,    \* wait_timeout
    rr_pc,         \* "start", "found", "waited", "hung", "built", "raised"
    rr_i,          \* position in ep_to_path.items()
    rr_paths,      \* ep_to_path: per endpoint None or the name found
    rr_ready,      \* all_ready
    rr_map,        \* molecules, as molecules_map above
    rr_final       \* the molecules of the TestResults returned

vars == <<fr_row, fr_out,
          pj_calculate, pj_uid, pj_xvfb, pj_pc, pj_endpoints, pj_jobs,
          ex_workers, ex_timeout, ex_jobs, ex_pc, ex_i, ex_state, ex_future,
          ex_file, ex_results, ex_poll, ex_seen,
          rc_smiles, rc_results, rc_disk, rc_pc, rc_i, rc_map, rc_final,
          mn_args, mn_pc, mn_cause, mn_tmpdir, mn_endpoints, mn_jobs, mn_started,
          mn_disk, mn_results, mn_molecules, mn_final, mn_json, mn_csv, mn_exit,
          fw_file, fw_timeout, fw_pc, fw_k, fw_good, fw_now, fw_deadline, fw_ret,
          fw_polls, fw_sleeps, fw_started, fw_first, fw_intime,
          rr_dir, rr_eps, rr_timeout, rr_pc, rr_i, rr_paths, rr_ready, rr_map, rr_final>>

fr_vars == <<fr_row, fr_out>>
pj_vars == <<pj_calculate, pj_uid, pj_xvfb, pj_pc, pj_endpoints, pj_jobs>>
ex_vars == <<ex_workers, ex_timeout, ex_jobs, ex_pc, ex_i, ex_state, ex_future,
             ex_file, ex_results, ex_poll, ex_seen>>
rc_vars == <<rc_smiles, rc_results, rc_disk, rc_pc, rc_i, rc_map, rc_final>>
mn_vars == <<mn_args, mn_pc, mn_cause, mn_tmpdir, mn_endpoints, mn_jobs, mn_started,
             mn_disk, mn_results, mn_molecules, mn_final, mn_json, mn_csv, mn_exit>>
fw_vars == <<fw_file, fw_timeout, fw_pc, fw_k, fw_good, fw_now, fw_deadline, fw_ret,
             fw_polls, fw_sleeps, fw_started, fw_first, fw_intime>>
rr_vars == <<rr_dir, rr_eps, rr_timeout, rr_pc, rr_i, rr_paths, rr_ready, rr_map, rr_final>>

(***************************************************************************)
(* Strings                                                                 *)
(***************************************************************************)
Digits == <<"0", "1", "2", "3", "4", "5", "6", "7", "8", "9">>

UpperCase == <<"A", "B", "C", "D", "E", "F", "G", "H", "I", "J", "K", "L", "M",
               "N", "O", "P", "Q", "R", "S", "T", "U", "V", "W", "X", "Y", "Z">>

LowerCase == <<"a", "b", "c", "d", "e", "f", "g", "h", "i", "j", "k", "l", "m",
               "n", "o", "p", "q", "r", "s", "t", "u", "v", "w", "x", "y", "z">>

IsDigit(c) == \E i \in 1..Len(Digits) : Digits[i] = c

DigitVal(c) == (CHOOSE i \in 1..Len(Digits) : Digits[i] = c) - 1

\* str.lower()
LowerChar(c) ==
    IF \E i \in 1..Len(UpperCase) : UpperCase[i] = c
    THEN LowerCase[CHOOSE i \in 1..Len(UpperCase) : UpperCase[i] = c]
    ELSE c

Lower(s) == [i \in 1..Len(s) |-> LowerChar(s[i])]

\* sub in s
Contains(s, sub) ==
    \E i \in 0..(Len(s) - Len(sub)) :
        \A j \in 1..Len(sub) : s[i + j] = sub[j]

\* str.replace(old, new) for one-character old and new
ReplaceChar(s, old, new) == [i \in 1..Len(s) |-> IF s[i] = old THEN new ELSE s[i]]

IsSpace(c) == c = " "

RECURSIVE LStrip(_)
LStrip(s) == IF s # <<>> /\ IsSpace(Head(s)) THEN LStrip(Tail(s)) ELSE s

RECURSIVE RStrip(_)
RStrip(s) ==
    IF s # <<>> /\ IsSpace(s[Len(s)]) THEN RStrip(SubSeq(s, 1, Len(s) - 1)) ELSE s

\* str.strip()
Strip(s) == RStrip(LStrip(s))

AllDigits(s) == \A i \in 1..Len(s) : IsDigit(s[i])

IsSign(c) == c = "+" \/ c = "-"

Unsigned(s) == IF s # <<>> /\ IsSign(Head(s)) THEN Tail(s) ELSE s

RECURSIVE DigitsVal(_)
DigitsVal(s) ==
    IF s = <<>> THEN 0 ELSE 10 * DigitsVal(SubSeq(s, 1, Len(s) - 1)) + DigitVal(s[Len(s)])

\* Optional values: None, or a value
NoneV == [none |-> TRUE, s |-> <<>>]

Str(s) == [none |-> FALSE, s |-> s]

NoFloat == [none |-> TRUE, m |-> 0, e |-> 0]

\* the number m * 10^(-e)
Float(m, e) == [none |-> FALSE, m |-> m, e |-> e]

\* Python truthiness of an Optional[str]
Truthy(v) == ~v.none /\ v.s # <<>>

(***************************************************************************)
(* float(s), for the decimal literals [sign] digits [. digits] and         *)
(* [sign] . digits, after surrounding whitespace is dropped.  Exponents,   *)
(* underscores and the names inf / nan are outside the alphabet of the     *)
(* cells enumerated below.                                                 *)
(***************************************************************************)
DotAt(s) == IF \E i \in 1..Len(s) : s[i] = "." THEN CHOOSE i \in 1..Len(s) : s[i] = "." ELSE 0

IsFloatText(t) ==
    LET s == Unsigned(Strip(t))
        d == DotAt(s)
        ip == IF d = 0 THEN s ELSE SubSeq(s, 1, d - 1)
        fp == IF d = 0 THEN <<>> ELSE SubSeq(s, d + 1, Len(s))
    IN  /\ AllDigits(ip)
        /\ AllDigits(fp)
        /\ Len(ip) + Len(fp) >= 1

RECURSIVE Reduce(_, _)
Reduce(m, e) == IF e > 0 /\ m % 10 = 0 THEN Reduce(m \div 10, e - 1) ELSE Float(m, e)

ParseFloat(t) ==
    LET st == Strip(t)
        neg == st # <<>> /\ Head(st) = "-"
        s == Unsigned(st)
        d == DotAt(s)
        ip == IF d = 0 THEN s ELSE SubSeq(s, 1, d - 1)
        fp == IF d = 0 THEN <<>> ELSE SubSeq(s, d + 1, Len(s))
        mag == DigitsVal(ip \o fp)
    IN  Reduce(IF neg THEN 0 - mag ELSE mag, Len(fp))

(***************************************************************************)
(* int(s): [sign] digits, surrounding whitespace dropped; anything else    *)
(* raises (ValueError), as does None (TypeError).                          *)
(***************************************************************************)
IsIntText(t) ==
    LET s == Unsigned(Strip(t))
    IN  s # <<>> /\ AllDigits(s)

ParseInt(t) ==
    LET st == Strip(t)
        mag == DigitsVal(Unsigned(st))
    IN  IF st # <<>> /\ Head(st) = "-" THEN 0 - mag ELSE mag

(***************************************************************************)
(* Rows.  A row is the dict csv.DictReader (or a caller) built, kept as    *)
(* the sequence of its items in insertion order.  A field whose knone is   *)
(* TRUE is the None key under which DictReader stores the cells a line has *)
(* beyond the header; its value is a non-empty list.                       *)
(***************************************************************************)
Field(k, v) == [k |-> k, knone |-> FALSE, v |-> v]

RestField == [k |-> <<>>, knone |-> TRUE, v |-> Str(<<"*">>)]

K_Index == <<"I", "n", "d", "e", "x">>

K_Error == <<"E", "r", "r", "o", "r">>

K_PredValue == <<"P", "r", "e", "d", "_", "V", "a", "l", "u", "e">>

K_ExpPred == <<"E", "X", "P", "_", "P", "R", "E", "D">>

K_Note == <<"N", "o", "t", "e">>

S_pred == <<"p", "r", "e", "d">>

S_pred_value == <<"p", "r", "e", "d", "_", "v", "a", "l", "u", "e">>

S_pred_value_sp == <<"p", "r", "e", "d", " ", "v", "a", "l", "u", "e">>

HasKey(row, k) == \E i \in 1..Len(row) : ~row[i].knone /\ row[i].k = k

\* row.get(k): the value, or None when the key is absent
Get(row, k) ==
    IF HasKey(row, k)
    THEN row[CHOOSE i \in 1..Len(row) : ~row[i].knone /\ row[i].k = k].v
    ELSE NoneV

EndpointResult(name, value, error, raw_data) ==
    [name |-> name, value |-> value, error |-> error, raw_data |-> raw_data]

\* raw_data payloads
RawNone == [kind |-> "none", rows |-> <<>>, text |-> <<>>]

RawMissing == [kind |-> "missing", rows |-> <<>>, text |-> <<>>]

RawRow(row) == [kind |-> "row", rows |-> <<row>>, text |-> <<>>]

\* The key test of the scan: "pred" in key_lower or ...
PredLike(k) ==
    LET key_lower == Lower(k)
    IN  \/ Contains(key_lower, S_pred)
        \/ Contains(key_lower, S_pred_value)
        \/ Contains(key_lower, S_pred_value_sp)

\* ScanPred stopping at the first non-empty pred-like column, numeric or not
RECURSIVE ScanPred_FirstOnly(_, _, _)
ScanPred_FirstOnly(row, i, err) ==
    IF i > Len(row) THEN [raised |-> FALSE, val |-> NoFloat, err |-> err]
    ELSE IF ~Truthy(row[i].v) THEN ScanPred_FirstOnly(row, i + 1, err)
    ELSE IF row[i].knone THEN [raised |-> TRUE, val |-> NoFloat, err |-> err]
    ELSE IF PredLike(row[i].k)
         THEN LET s == Strip(row[i].v.s)
                  s_norm == ReplaceChar(s, ",", ".")
              IN  IF IsFloatText(s_norm)
                  THEN [raised |-> FALSE, val |-> ParseFloat(s_norm), err |-> err]
                  ELSE [raised |-> FALSE, val |-> NoFloat,
                        err |-> IF ~Truthy(err) THEN Str(s) ELSE err]
    ELSE ScanPred_FirstOnly(row, i + 1, err)

\* The scan of row_data.items() from field i on, err being the error so far.
\* raised: k.lower() on the None key (AttributeError).
RECURSIVE ScanPred(_, _, _)
ScanPred(row, i, err) ==
    IF i > Len(row) THEN [raised |-> FALSE, val |-> NoFloat, err |-> err]
    ELSE IF ~Truthy(row[i].v) THEN ScanPred(row, i + 1, err)
    ELSE IF row[i].knone THEN [raised |-> TRUE, val |-> NoFloat, err |-> err]
    ELSE IF PredLike(row[i].k)
         THEN LET s == Strip(row[i].v.s)
                  s_norm == ReplaceChar(s, ",", ".")
              IN  IF IsFloatText(s_norm)
                  THEN [raised |-> FALSE, val |-> ParseFloat(s_norm), err |-> err]
                  ELSE ScanPred(row, i + 1, IF ~Truthy(err) THEN Str(s) ELSE err)
    ELSE ScanPred(row, i + 1, err)

\* from_row_data letting a non-numeric pred-like cell replace the Error text
from_row_data_PredOverError(row, name) ==
    LET scan == ScanPred(row, 1, NoneV)
        err0 == IF HasKey(row, K_Error) /\ Truthy(Get(row, K_Error))
                THEN Get(row, K_Error) ELSE NoneV
    IN  [raised |-> scan.raised,
         res |-> EndpointResult(name, scan.val,
                                IF Truthy(scan.err) THEN scan.err ELSE err0,
                                RawRow(row))]

\* EndpointResult.from_row_data(row_data, desc); name is desc.get("name", "")
from_row_data(row, name) ==
    LET err0 == IF HasKey(row, K_Error) /\ Truthy(Get(row, K_Error))
                THEN Get(row, K_Error) ELSE NoneV
        scan == ScanPred(row, 1, err0)
    IN  [raised |-> scan.raised,
         res |-> EndpointResult(name, scan.val, scan.err, RawRow(row))]

(***************************************************************************)
(* Specification SpecRow: from_row_data applied to one row.  The rows are  *)
(* the str-keyed dicts of its signature (row_data: Dict[str, Any]): every  *)
(* order in RowOrders of the columns Index, Error, Note and three pred-    *)
(* like columns, each column absent or holding one of the cells below.     *)
(***************************************************************************)
K_pred == <<"p", "r", "e", "d">>

C_314 == <<"3", ".", "1", "4">>

C_2c5 == <<"2", ",", "5">>

C_na == <<"n", "/", "a">>

C_sp7 == <<" ", "7", " ">>

C_sp == <<" ">>

C_bad == <<"b", "a", "d">>

C_1 == <<"1">>

C_ok == <<"o", "k">>

\* marks a column the row does not have
AbsentCell == [none |-> TRUE, s |-> <<"absent">>]

PredCells == {AbsentCell, NoneV, Str(<<>>), Str(C_314), Str(C_2c5), Str(C_na), Str(C_sp7), Str(C_sp)}

ErrorCells == {AbsentCell, NoneV, Str(<<>>), Str(C_bad), Str(C_sp), Str(C_1)}

RowOrders ==
    { <<K_Index, K_PredValue, K_ExpPred, K_pred, K_Error, K_Note>>,
      <<K_Index, K_ExpPred, K_pred, K_PredValue, K_Error, K_Note>>,
      <<K_Error, K_pred, K_Index, K_PredValue, K_Note, K_ExpPred>> }

CellOf(k, pv, ep, pl, er) ==
    IF k = K_PredValue THEN pv
    ELSE IF k = K_ExpPred THEN ep
    ELSE IF k = K_pred THEN pl
    ELSE IF k = K_Error THEN er
    ELSE IF k = K_Index THEN Str(C_1)
    ELSE Str(C_ok)

MakeRow(o, pv, ep, pl, er) ==
    LET all == [i \in 1..Len(o) |-> Field(o[i], CellOf(o[i], pv, ep, pl, er))]
        Present(f) == f.v # AbsentCell
    IN  SelectSeq(all, Present)

RowInputs ==
    { MakeRow(o, pv, ep, pl, er) :
        o \in RowOrders, pv \in PredCells, ep \in PredCells, pl \in PredCells,
        er \in ErrorCells }

NotCalled == [called |-> FALSE, raised |-> FALSE,
              res |-> EndpointResult(<<>>, NoFloat, NoneV, RawNone)]

N_LC50 == <<"L", "C", "5", "0", " ", "n", "a", "m", "e">>

PjIdle ==
    /\ pj_calculate = NoneV
    /\ pj_uid = <<>>
    /\ pj_xvfb = FALSE
    /\ pj_pc = "idle"
    /\ pj_endpoints = <<>>
    /\ pj_jobs = <<>>

ExIdle ==
    /\ ex_workers = 0
    /\ ex_timeout = FALSE
    /\ ex_jobs = <<>>
    /\ ex_pc = "idle"
    /\ ex_i = 0
    /\ ex_state = <<>>
    /\ ex_future = <<>>
    /\ ex_file = <<>>
    /\ ex_results = <<>>
    /\ ex_poll = 0
    /\ ex_seen = <<>>

RcIdle ==
    /\ rc_smiles = <<>>
    /\ rc_results = <<>>
    /\ rc_disk = <<>>
    /\ rc_pc = "idle"
    /\ rc_i = 0
    /\ rc_map = <<>>
    /\ rc_final = <<>>

FrIdle ==
    /\ fr_row = <<>>
    /\ fr_out = NotCalled

MnIdle ==
    /\ mn_args = <<>>
    /\ mn_pc = "idle"
    /\ mn_cause = "none"
    /\ mn_tmpdir = "none"
    /\ mn_endpoints = <<>>
    /\ mn_jobs = <<>>
    /\ mn_started = 0
    /\ mn_disk = <<>>
    /\ mn_results = <<>>
    /\ mn_molecules = <<>>
    /\ mn_final = <<>>
    /\ mn_json = <<>>
    /\ mn_csv = <<>>
    /\ mn_exit = 0 - 1

FwIdle ==
    /\ fw_file = <<>>
    /\ fw_timeout = NoneV
    /\ fw_pc = "idle"
    /\ fw_k = 0
    /\ fw_good = FALSE
    /\ fw_now = 0
    /\ fw_deadline = 0
    /\ fw_ret = "none"
    /\ fw_polls = 0
    /\ fw_sleeps = 0
    /\ fw_started = 0
    /\ fw_first = "none"
    /\ fw_intime = FALSE

RrIdle ==
    /\ rr_dir = <<>>
    /\ rr_eps = <<>>
    /\ rr_timeout = 0
    /\ rr_pc = "idle"
    /\ rr_i = 0
    /\ rr_paths = <<>>
    /\ rr_ready = FALSE
    /\ rr_map = <<>>
    /\ rr_final = <<>>

InitRow ==
    /\ fr_row \in RowInputs
    /\ fr_out = NotCalled
    /\ PjIdle /\ ExIdle /\ RcIdle /\ MnIdle /\ FwIdle /\ RrIdle

\* res = EndpointResult.from_row_data(row, desc)
CallFromRowData ==
    /\ ~fr_out.called
    /\ fr_out' = [called |-> TRUE,
                  raised |-> from_row_data(fr_row, N_LC50).raised,
                  res |-> from_row_data(fr_row, N_LC50).res]
    /\ UNCHANGED <<fr_row, pj_vars, ex_vars, rc_vars, mn_vars, fw_vars, rr_vars>>

NextRow == CallFromRowData

SpecRow == InitRow /\ [][NextRow]_vars

(***************************************************************************)
(* Claims about from_row_data                                              *)
(***************************************************************************)
\* whether field i of the row is a non-empty pred-like column
PredField(row, i) == ~row[i].knone /\ PredLike(row[i].k) /\ Truthy(row[i].v)

\* the cell of field i as the scan reads it: stripped, comma turned to dot
NormCell(row, i) == ReplaceChar(Strip(row[i].v.s), ",", ".")

NumericField(row, i) == PredField(row, i) /\ IsFloatText(NormCell(row, i))

ErrorNonEmpty(row) == HasKey(row, K_Error) /\ Truthy(Get(row, K_Error))

PosOf(row, k) == CHOOSE i \in 1..Len(row) : ~row[i].knone /\ row[i].k = k

PredValueNumeric(row) ==
    HasKey(row, K_PredValue) /\ NumericField(row, PosOf(row, K_PredValue))

\* C4: a row whose Pred_Value parses as a number (comma read as the decimal
\* point) yields that number as value and an empty error (None or ""),
\* whatever the other columns hold.
C4_NumericPredValue ==
    (fr_out.called /\ PredValueNumeric(fr_row)) =>
        /\ ~fr_out.raised
        /\ fr_out.res.value = ParseFloat(NormCell(fr_row, PosOf(fr_row, K_PredValue)))
        /\ ~Truthy(fr_out.res.error)

\* C4 on the rows that carry no Error text: the error of a row whose
\* Pred_Value parses as a number is empty.
C4_NoErrorText ==
    (fr_out.called /\ PredValueNumeric(fr_row) /\ ~ErrorNonEmpty(fr_row)) =>
        ~Truthy(fr_out.res.error)

MinOf(S) == CHOOSE x \in S : \A y \in S : x <= y

PredFields(row) == {i \in 1..Len(row) : PredField(row, i)}

NumericFields(row) == {i \in 1..Len(row) : NumericField(row, i)}

ENDPOINTS_DESCRIPTION ==
    <<<<"L", "C", "5", "0">>,
       <<"L", "C", "5", "0", "D", "M">>,
       <<"I", "G", "C", "5", "0">>,
       <<"L", "D", "5", "0">>,
       <<"B", "C", "F">>,
       <<"D", "e", "v", "T", "o", "x">>,
       <<"M", "u", "t", "a", "g", "e", "n", "i", "c", "i", "t", "y">>,
       <<"B", "P">>,
       <<"D", "e", "n", "s", "i", "t", "y">>,
       <<"F", "P">>,
       <<"M", "P">>,
       <<"S", "T">>,
       <<"T", "C">>,
       <<"V", "P">>,
       <<"W", "S">>,
       <<"v", "i", "s", "c", "o", "s", "i", "t", "y">>,
       <<"E", "R", "_", "B", "i", "n", "a", "r", "y">>>>

InSeq(x, s) == \E i \in 1..Len(s) : s[i] = x

\* desc.get("name", endpoint): the catalog's display name, kept as the key
\* followed by " name" (the catalog gives every endpoint a distinct name)
DescName(ep) == ep \o <<" ", "n", "a", "m", "e">>

\* str.split(sep) for a one-character sep
RECURSIVE SplitFrom(_, _, _)
SplitFrom(s, sep, cur) ==
    IF s = <<>> THEN <<cur>>
    ELSE IF Head(s) = sep THEN <<cur>> \o SplitFrom(Tail(s), sep, <<>>)
    ELSE SplitFrom(Tail(s), sep, Append(cur, Head(s)))

Split(s, sep) == SplitFrom(s, sep, <<>>)

\* requested = [e.strip() for e in self.args.calculate.split(",")]
Requested(calculate) ==
    LET parts == Split(calculate.s, ",")
    IN  [i \in 1..Len(parts) |-> Strip(parts[i])]

\* invalid = [e for e in requested if e not in endpoints_desc]
Invalid(calculate) ==
    LET NotKnown(e) == ~InSeq(e, ENDPOINTS_DESCRIPTION)
    IN  SelectSeq(Requested(calculate), NotKnown)

\* _get_filtered_endpoints when it returns: the keys of the filtered dict
get_filtered_endpoints(calculate) ==
    IF Truthy(calculate)
    THEN LET Wanted(k) == InSeq(k, Requested(calculate))
         IN  SelectSeq(ENDPOINTS_DESCRIPTION, Wanted)
    ELSE ENDPOINTS_DESCRIPTION

S_output == <<"o", "u", "t", "p", "u", "t">>

S_csv == <<".", "c", "s", "v">>

S_propiedad == <<"p", "r", "o", "p", "i", "e", "d", "a", "d">>

\* commands = get_endpoints_from_description(self.endpoints_desc)
get_endpoints_from_description(endpoints_desc) ==
    [i \in 1..Len(endpoints_desc) |->
        [abbrev |-> endpoints_desc[i],
         out_rel |-> S_output \o <<"/">> \o endpoints_desc[i] \o S_csv]]

\* os.path.join(a, b) for a relative b
PathJoin(a, b) == a \o <<"/">> \o b

\* tmpdir = mkdtemp(dir=tmp_root, prefix=f"test_{unique_id}_")
TmpDir(uid) == <<"t", "e", "s", "t", "_">> \o uid \o <<"_", "r">>

\* inp_path = os.path.join(tmpdir, f"entrada{unique_id}.smi")
InpPath(uid) ==
    PathJoin(TmpDir(uid), <<"e", "n", "t", "r", "a", "d", "a">> \o uid \o <<".", "s", "m", "i">>)

\* out_filename dropping the endpoint identifier
OutFilename_NoEndpoint(uid, endpoint) == S_propiedad \o uid \o <<"_">> \o S_csv

\* out_filename = f"propiedad{unique_id}_{endpoint}.csv"
OutFilename(uid, endpoint) == S_propiedad \o uid \o <<"_">> \o endpoint \o S_csv

A_java == <<"j", "a", "v", "a">>

A_jar == <<"W", "e", "b", "T", "E", "S", "T", ".", "j", "a", "r">>

A_class == <<"R", "u", "n", "F", "r", "o", "m", "C", "o", "m", "m", "a", "n", "d", "L", "i", "n", "e">>

A_xvfb == <<"x", "v", "f", "b", "-", "r", "u", "n">>

A_screen == <<"-", "-", "s", "e", "r", "v", "e", "r", "-", "a", "r", "g", "s">>

A_script_dir == <<"p", "y", "t", "h", "o", "n">>

A_consensus == <<"c", "o", "n", "s", "e", "n", "s", "u", "s">>

build_command(java_bin, input_path, out_path, endpoint) ==
    <<java_bin, <<"-", "c", "p">>, A_jar, A_class, <<"-", "i">>, input_path,
      <<"-", "o">>, out_path, <<"-", "e">>, endpoint, <<"-", "m">>, A_consensus>>

\* one job of prepare_jobs
prepare_job(cmdrec, uid, xvfb) ==
    LET out_filename == OutFilename(uid, cmdrec.abbrev)
        out_path == PathJoin(PathJoin(TmpDir(uid), S_output), out_filename)
        base_cmd == build_command(A_java, InpPath(uid), out_path, cmdrec.abbrev)
    IN  [endpoint |-> cmdrec.abbrev,
         out_name |-> out_filename,
         out_path |-> out_path,
         cmd |-> IF xvfb
                 THEN <<A_xvfb, <<"-", "n">>, <<"9", "9">>, A_screen>> \o base_cmd
                 ELSE base_cmd,
         cwd |-> A_script_dir]

prepare_jobs(commands, uid, xvfb) ==
    [i \in 1..Len(commands) |-> prepare_job(commands[i], uid, xvfb)]

\* the arguments that follow the flag in a command line
ArgAfter(cmd, flag) == { cmd[i + 1] : i \in { n \in 1..(Len(cmd) - 1) : cmd[n] = flag } }

\* What the process of a job writes, as its command line names it: the
\* artifact after -o (the external tool creates it) and, under xvfb-run, the
\* X display after -n (xvfb-run starts an X server on that number and takes
\* its lock).  The input after -i and the jar after -cp are only read.
WritesOf(job) ==
    { <<"artifact", x>> : x \in ArgAfter(job.cmd, <<"-", "o">>) }
        \cup (IF job.cmd[1] = A_xvfb
               THEN { <<"display", x>> : x \in ArgAfter(job.cmd, <<"-", "n">>) }
               ELSE {})

(***************************************************************************)
(* Specification SpecPrep: the constructor's endpoint filter followed by   *)
(* prepare_jobs, for --calculate absent, empty, or any comma-joined list   *)
(* of up to MaxCalc of the tokens below, with and without xvfb-run.        *)
(***************************************************************************)
MaxCalc == 3

E_LC50 == <<"L", "C", "5", "0">>

E_LC50DM == <<"L", "C", "5", "0", "D", "M">>

E_BP == <<"B", "P">>

E_spBP == <<" ", "B", "P">>

E_XX == <<"X", "X">>

CalcTokens == {E_LC50, E_LC50DM, E_BP, E_spBP, E_XX, <<>>}

RECURSIVE JoinComma(_)
JoinComma(ts) ==
    IF Len(ts) = 0 THEN <<>>
    ELSE IF Len(ts) = 1 THEN ts[1]
    ELSE ts[1] \o <<",">> \o JoinComma(Tail(ts))

CalcTexts ==
    { JoinComma(ts) : ts \in UNION { [1..n -> CalcTokens] : n \in 1..MaxCalc } }

Uids == { <<"a", "1">>, <<"b", "2">> }

InitPrep ==
    /\ pj_calculate \in {NoneV} \cup { Str(c) : c \in CalcTexts }
    /\ pj_uid \in Uids
    /\ pj_xvfb \in BOOLEAN
    /\ pj_pc = "init"
    /\ pj_endpoints = <<>>
    /\ pj_jobs = <<>>
    /\ FrIdle /\ ExIdle /\ RcIdle /\ MnIdle /\ FwIdle /\ RrIdle

\* TESTRunner.__init__: an unknown endpoint raises ValueError
FilterRaises ==
    /\ pj_pc = "init"
    /\ Truthy(pj_calculate)
    /\ Invalid(pj_calculate) # <<>>
    /\ pj_pc' = "raised"
    /\ UNCHANGED <<pj_calculate, pj_uid, pj_xvfb, pj_endpoints, pj_jobs>>
    /\ UNCHANGED <<fr_vars, ex_vars, rc_vars, mn_vars, fw_vars, rr_vars>>

\* TESTRunner.__init__: self.endpoints_desc = self._get_filtered_endpoints()
FilterReturns ==
    /\ pj_pc = "init"
    /\ ~(Truthy(pj_calculate) /\ Invalid(pj_calculate) # <<>>)
    /\ pj_endpoints' = get_filtered_endpoints(pj_calculate)
    /\ pj_pc' = "filtered"
    /\ UNCHANGED <<pj_calculate, pj_uid, pj_xvfb, pj_jobs>>
    /\ UNCHANGED <<fr_vars, ex_vars, rc_vars, mn_vars, fw_vars, rr_vars>>

\* TESTRunner.run: commands = ...; jobs = runner.prepare_jobs(...)
PrepareJobs ==
    /\ pj_pc = "filtered"
    /\ pj_jobs' = prepare_jobs(get_endpoints_from_description(pj_endpoints), pj_uid, pj_xvfb)
    /\ pj_pc' = "prepared"
    /\ UNCHANGED <<pj_calculate, pj_uid, pj_xvfb, pj_endpoints>>
    /\ UNCHANGED <<fr_vars, ex_vars, rc_vars, mn_vars, fw_vars, rr_vars>>

NextPrep == FilterRaises \/ FilterReturns \/ PrepareJobs

SpecPrep == InitPrep /\ [][NextPrep]_vars

\* the endpoints the run was asked for: the whole catalog, or the names of
\* the --calculate list
RequestedSet ==
    IF Truthy(pj_calculate)
    THEN { Requested(pj_calculate)[i] : i \in 1..Len(Requested(pj_calculate)) }
    ELSE { ENDPOINTS_DESCRIPTION[i] : i \in 1..Len(ENDPOINTS_DESCRIPTION) }

JobsFor(ep) == { i \in 1..Len(pj_jobs) : pj_jobs[i].endpoint = ep }

\* C9: prepare_jobs yields exactly one job per requested endpoint (also when
\* the list names one twice), none for any other endpoint, and the jobs'
\* out_path values are pairwise distinct, each ending in the file name made
\* of the run's token and the job's endpoint identifier.
C9_OneJobPerEndpoint ==
    pj_pc = "prepared" =>
        /\ \A ep \in RequestedSet : Cardinality(JobsFor(ep)) = 1
        /\ \A i \in 1..Len(pj_jobs) : pj_jobs[i].endpoint \in RequestedSet
        /\ \A i, j \in 1..Len(pj_jobs) :
               i # j => pj_jobs[i].out_path # pj_jobs[j].out_path
        /\ \A i \in 1..Len(pj_jobs) :
               LET name == S_propiedad \o pj_uid \o <<"_">> \o pj_jobs[i].endpoint \o S_csv
                   path == pj_jobs[i].out_path
               IN  /\ Len(path) > Len(name)
                   /\ SubSeq(path, Len(path) - Len(name) + 1, Len(path)) = name
                   /\ path[Len(path) - Len(name)] = "/"

\* jobs were built for a list naming one endpoint twice beside another one
C9_Witness ==
    /\ pj_pc = "prepared"
    /\ Truthy(pj_calculate)
    /\ Len(Requested(pj_calculate)) = 3
    /\ Len(pj_jobs) = 2

\* the part of C22 that holds: without the virtual-display wrapper no two
\* jobs of the list name a common written resource
C22_WithoutWrapper ==
    (pj_pc = "prepared" /\ ~pj_xvfb) =>
        \A j \in 1..Len(pj_jobs) : \A k \in 1..Len(pj_jobs) :
            j # k => WritesOf(pj_jobs[j]) \cap WritesOf(pj_jobs[k]) = {}

(***************************************************************************)
(* run_command and EndpointJobRunner.execute_jobs                          *)
(***************************************************************************)
\* the number of artifact checks of _handle_xvfb_cleanup: range(20)
PollAttempts == 20

S_kill == <<"k", "i", "l", "l", ":">>

S_no_existe == <<"N", "o", " ", "e", "x", "i", "s", "t", "e", " ", "e", "l", " ", "p", "r", "o", "c", "e", "s", "o">>

\* stderr of xvfb-run failing to kill an already gone Xvfb
StderrCleanup == <<"k", "i", "l", "l", ":", " ", "(", "7", ")", " ", "N", "o", " ", "e", "x", "i", "s", "t", "e", " ", "e", "l", " ", "p", "r", "o", "c", "e", "s", "o">>

\* stderr holding one of the two markers only
StderrKillOnly == <<"k", "i", "l", "l", ":", " ", "(", "7", ")">>

StderrBoom == <<"b", "o", "o", "m">>

S_timeout_marker == <<"\n">> \o <<"T", "I", "M", "E", "O", "U", "T", " ", "a", "f", "t", "e", "r", " ", "5", "s">>

S_oserror == <<"[", "E", "r", "r", "n", "o", " ", "2", "]", " ", "x", "v", "f", "b", "-", "r", "u", "n">>

S_ignored == <<"x", "v", "f", "b", "-", "r", "u", "n", " ", "c", "l", "e", "a", "n", "u", "p", " ", "e", "r", "r", "o", "r", " ", "i", "g", "n", "o", "r", "e", "d">>

\* How the external process of a job ended, as subprocess.run sees it:
\*   "exit":    it exited with rc and the captured stderr text;
\*   "timeout": TimeoutExpired; e.stderr is None when nothing was captured
\*              and a bytes object otherwise (bytes |-> TRUE), also with
\*              text=True;
\*   "oserror": the executable could not be launched.
ProcExit(rc, stderr) == [how |-> "exit", rc |-> rc, stderr |-> Str(stderr), bytes |-> FALSE]

ProcTimeout(captured) ==
    [how |-> "timeout", rc |-> 0,
     stderr |-> IF captured THEN Str(StderrBoom) ELSE NoneV, bytes |-> captured]

ProcOsError == [how |-> "oserror", rc |-> 0, stderr |-> Str(S_oserror), bytes |-> FALSE]

Pending == [kind |-> "pending", rc |-> 0, stderr |-> <<>>]

Result(rc, stderr) == [kind |-> "result", rc |-> rc, stderr |-> stderr]

\* the future of a call that raised
Raised == [kind |-> "exception", rc |-> 0, stderr |-> <<>>]

\* run_command(cmd, timeout, cwd), given how the process ended.  In the
\* TimeoutExpired handler (e.stderr or "") + f"\nTIMEOUT ..." adds a str to
\* the bytes captured so far: TypeError, raised inside the handler and so
\* not caught by the except Exception clause beside it.
run_command(proc) ==
    IF proc.how = "exit" THEN Result(proc.rc, proc.stderr.s)
    ELSE IF proc.how = "timeout"
         THEN IF Truthy(proc.stderr)
              THEN IF proc.bytes THEN Raised
                   ELSE Result(0 - 1, proc.stderr.s \o S_timeout_marker)
              ELSE Result(0 - 1, <<>> \o S_timeout_marker)
    ELSE Result(0 - 2, proc.stderr.s)

\* the pattern reduced to the first marker
is_xvfb_cleanup_error_KillOnly(res) ==
    /\ res.rc = 1
    /\ res.stderr # <<>>
    /\ Contains(res.stderr, S_kill)

\* is_xvfb_cleanup_error
is_xvfb_cleanup_error(res) ==
    /\ res.rc = 1
    /\ res.stderr # <<>>
    /\ Contains(res.stderr, S_kill)
    /\ Contains(res.stderr, S_no_existe)

\* d[key] = value on a dict kept as the sequence of its items
DictHas(d, key) == \E i \in 1..Len(d) : d[i].endpoint = key

DictPos(d, key) == CHOOSE i \in 1..Len(d) : d[i].endpoint = key

DictSet(d, key, value) ==
    IF DictHas(d, key)
    THEN [i \in 1..Len(d) |-> IF d[i].endpoint = key THEN value ELSE d[i]]
    ELSE Append(d, value)

\* results[ep] = {...} of the collection loop
OutcomeEntry(job, res) ==
    [endpoint |-> job.endpoint,
     out_name |-> job.out_name,
     out_path |-> job.out_path,
     rc |-> res.rc,
     stderr |-> res.stderr]

\* the entry left unchanged although the artifact appeared
Reclassify_KeepsFailure(entry) == entry

\* results[ep]["rc"] = 0; results[ep]["stderr"] = "xvfb-run cleanup error ignored"
Reclassify(entry) == [entry EXCEPT !.rc = 0, !.stderr = S_ignored]

\* the artifact check of one poll: exists, is a regular file, size > 0
ArtifactReady(f) == f = "data"

Running == { j \in 1..Len(ex_jobs) : ex_state[j] = "running" }

\* the pool starting work items without regard to max_workers
PoolHasIdleWorker_Unbounded == TRUE

\* ThreadPoolExecutor(max_workers=self.args.workers): a work item is taken
\* only by one of at most max_workers threads, each running one at a time
PoolHasIdleWorker == Cardinality(Running) < ex_workers

\* work items leave the queue in submission order
HeadOfQueue(j) ==
    /\ ex_state[j] = "queued"
    /\ \A k \in 1..(j - 1) : ex_state[k] # "queued"

\* fut.result() returning without waiting for the call to end
FutureDone_NoWait(j) == TRUE

\* fut.result() blocks until the call has ended
FutureDone(j) == ex_state[j] = "finished"

(***************************************************************************)
(* Specification SpecExec: execute_jobs on 1..MaxJobs jobs with 0..        *)
(* MaxWorkers workers, with or without a per-job timeout.                  *)
(***************************************************************************)
MaxJobs == 2

MaxWorkers == 2

ExitCodes == {0, 1, 2}

StderrTexts == {<<>>, StderrCleanup, StderrKillOnly}

InitExec ==
    /\ ex_workers \in 0..MaxWorkers
    /\ ex_timeout \in BOOLEAN
    /\ \E n \in 1..MaxJobs :
          /\ ex_jobs = prepare_jobs(get_endpoints_from_description(
                           SubSeq(ENDPOINTS_DESCRIPTION, 1, n)), <<"a", "1">>, TRUE)
          /\ ex_state = [j \in 1..n |-> "new"]
          /\ ex_future = [j \in 1..n |-> Pending]
          /\ ex_file = [j \in 1..n |-> "absent"]
          /\ ex_seen = [j \in 1..n |-> <<>>]
    /\ ex_pc = "enter"
    /\ ex_i = 1
    /\ ex_results = <<>>
    /\ ex_poll = 0
    /\ FrIdle /\ PjIdle /\ RcIdle /\ MnIdle /\ FwIdle /\ RrIdle

\* ThreadPoolExecutor(max_workers=n) raises ValueError for n <= 0
PoolRejects ==
    /\ ex_pc = "enter"
    /\ ex_workers <= 0
    /\ ex_pc' = "rejected"
    /\ UNCHANGED <<ex_workers, ex_timeout, ex_jobs, ex_i, ex_state, ex_future,
                   ex_file, ex_results, ex_poll, ex_seen>>
    /\ UNCHANGED <<fr_vars, pj_vars, rc_vars, mn_vars, fw_vars, rr_vars>>

PoolCreated ==
    /\ ex_pc = "enter"
    /\ ex_workers > 0
    /\ ex_pc' = "submit"
    /\ UNCHANGED <<ex_workers, ex_timeout, ex_jobs, ex_i, ex_state, ex_future,
                   ex_file, ex_results, ex_poll, ex_seen>>
    /\ UNCHANGED <<fr_vars, pj_vars, rc_vars, mn_vars, fw_vars, rr_vars>>

\* fut = executor.submit(run_command, ...); futures.append((job, fut))
Submit ==
    /\ ex_pc = "submit"
    /\ ex_state' = [ex_state EXCEPT ![ex_i] = "queued"]
    /\ IF ex_i = Len(ex_jobs)
       THEN ex_pc' = "collect" /\ ex_i' = 1
       ELSE ex_pc' = "submit" /\ ex_i' = ex_i + 1
    /\ UNCHANGED <<ex_workers, ex_timeout, ex_jobs, ex_future, ex_file,
                   ex_results, ex_poll, ex_seen>>
    /\ UNCHANGED <<fr_vars, pj_vars, rc_vars, mn_vars, fw_vars, rr_vars>>

\* a pool thread takes the job and subprocess.run launches its process
StartJob(j) ==
    /\ HeadOfQueue(j)
    /\ PoolHasIdleWorker
    /\ ex_state' = [ex_state EXCEPT ![j] = "running"]
    /\ UNCHANGED <<ex_workers, ex_timeout, ex_jobs, ex_pc, ex_i, ex_future,
                   ex_file, ex_results, ex_poll, ex_seen>>
    /\ UNCHANGED <<fr_vars, pj_vars, rc_vars, mn_vars, fw_vars, rr_vars>>

\* a pool thread takes the job and subprocess.run fails to launch it
LaunchFails(j) ==
    /\ HeadOfQueue(j)
    /\ PoolHasIdleWorker
    /\ ex_state' = [ex_state EXCEPT ![j] = "finished"]
    /\ ex_future' = [ex_future EXCEPT ![j] = run_command(ProcOsError)]
    /\ UNCHANGED <<ex_workers, ex_timeout, ex_jobs, ex_pc, ex_i, ex_file,
                   ex_results, ex_poll, ex_seen>>
    /\ UNCHANGED <<fr_vars, pj_vars, rc_vars, mn_vars, fw_vars, rr_vars>>

\* the process of job j exits
JobExits(j) ==
    /\ ex_state[j] = "running"
    /\ \E rc \in ExitCodes, text \in StderrTexts :
          ex_future' = [ex_future EXCEPT ![j] = run_command(ProcExit(rc, text))]
    /\ ex_state' = [ex_state EXCEPT ![j] = "finished"]
    /\ UNCHANGED <<ex_workers, ex_timeout, ex_jobs, ex_pc, ex_i, ex_file,
                   ex_results, ex_poll, ex_seen>>
    /\ UNCHANGED <<fr_vars, pj_vars, rc_vars, mn_vars, fw_vars, rr_vars>>

\* the process of job j outlives args.timeout and is killed
JobTimesOut(j) ==
    /\ ex_state[j] = "running"
    /\ ex_timeout
    /\ \E captured \in BOOLEAN :
          ex_future' = [ex_future EXCEPT ![j] = run_command(ProcTimeout(captured))]
    /\ ex_state' = [ex_state EXCEPT ![j] = "finished"]
    /\ UNCHANGED <<ex_workers, ex_timeout, ex_jobs, ex_pc, ex_i, ex_file,
                   ex_results, ex_poll, ex_seen>>
    /\ UNCHANGED <<fr_vars, pj_vars, rc_vars, mn_vars, fw_vars, rr_vars>>

\* the external tool (or a process it left behind) creates or fills the
\* artifact of a launched job
ArtifactWritten(j) ==
    /\ ex_state[j] = "running" \/ (ex_state[j] = "finished" /\ ex_future[j].rc >= 0)
    /\ ex_pc \in {"submit", "collect", "poll", "unwinding"}
    /\ \/ ex_file[j] = "absent" /\ ex_file' = [ex_file EXCEPT ![j] = "empty"]
       \/ ex_file[j] \in {"absent", "empty"} /\ ex_file' = [ex_file EXCEPT ![j] = "data"]
    /\ UNCHANGED <<ex_workers, ex_timeout, ex_jobs, ex_pc, ex_i, ex_state,
                   ex_future, ex_results, ex_poll, ex_seen>>
    /\ UNCHANGED <<fr_vars, pj_vars, rc_vars, mn_vars, fw_vars, rr_vars>>

\* the collection loop moves to the next (job, fut), or leaves the with block
Advance ==
    IF ex_i = Len(ex_jobs)
    THEN ex_pc' = "returned" /\ ex_i' = ex_i
    ELSE ex_pc' = "collect" /\ ex_i' = ex_i + 1

\* res = fut.result(); results[ep] = {...}; no cleanup error
CollectResult ==
    /\ ex_pc = "collect"
    /\ FutureDone(ex_i)
    /\ ex_future[ex_i].kind # "exception"
    /\ ~is_xvfb_cleanup_error(ex_future[ex_i])
    /\ ex_results' = DictSet(ex_results, ex_jobs[ex_i].endpoint,
                             OutcomeEntry(ex_jobs[ex_i], ex_future[ex_i]))
    /\ Advance
    /\ UNCHANGED <<ex_workers, ex_timeout, ex_jobs, ex_state, ex_future,
                   ex_file, ex_poll, ex_seen>>
    /\ UNCHANGED <<fr_vars, pj_vars, rc_vars, mn_vars, fw_vars, rr_vars>>

\* the cleanup error recorded and the loop moving on without polling
CollectCleanupError_NoPoll ==
    /\ ex_pc = "collect"
    /\ FutureDone(ex_i)
    /\ ex_future[ex_i].kind # "exception"
    /\ is_xvfb_cleanup_error(ex_future[ex_i])
    /\ ex_results' = DictSet(ex_results, ex_jobs[ex_i].endpoint,
                             OutcomeEntry(ex_jobs[ex_i], ex_future[ex_i]))
    /\ Advance
    /\ UNCHANGED <<ex_workers, ex_timeout, ex_jobs, ex_state, ex_future,
                   ex_file, ex_poll, ex_seen>>
    /\ UNCHANGED <<fr_vars, pj_vars, rc_vars, mn_vars, fw_vars, rr_vars>>

\* res = fut.result(); results[ep] = {...}; self._handle_xvfb_cleanup(...)
CollectCleanupError ==
    /\ ex_pc = "collect"
    /\ FutureDone(ex_i)
    /\ ex_future[ex_i].kind # "exception"
    /\ is_xvfb_cleanup_error(ex_future[ex_i])
    /\ ex_results' = DictSet(ex_results, ex_jobs[ex_i].endpoint,
                             OutcomeEntry(ex_jobs[ex_i], ex_future[ex_i]))
    /\ ex_pc' = "poll"
    /\ ex_poll' = 0
    /\ UNCHANGED <<ex_workers, ex_timeout, ex_jobs, ex_i, ex_state, ex_future,
                   ex_file, ex_seen>>
    /\ UNCHANGED <<fr_vars, pj_vars, rc_vars, mn_vars, fw_vars, rr_vars>>

\* fut.result() re-raises what run_command raised; the with block then
\* waits for the pool (shutdown(wait=True)) before the exception leaves
CollectRaises ==
    /\ ex_pc = "collect"
    /\ FutureDone(ex_i)
    /\ ex_future[ex_i].kind = "exception"
    /\ ex_pc' = "unwinding"
    /\ UNCHANGED <<ex_workers, ex_timeout, ex_jobs, ex_i, ex_state, ex_future,
                   ex_file, ex_results, ex_poll, ex_seen>>
    /\ UNCHANGED <<fr_vars, pj_vars, rc_vars, mn_vars, fw_vars, rr_vars>>

\* time.sleep(0.5); the artifact is there: file_appeared = True; break
PollFound ==
    /\ ex_pc = "poll"
    /\ ex_poll < PollAttempts
    /\ ArtifactReady(ex_file[ex_i])
    /\ ex_seen' = [ex_seen EXCEPT ![ex_i] = Append(@, TRUE)]
    /\ ex_results' = DictSet(ex_results, ex_jobs[ex_i].endpoint,
                             Reclassify(ex_results[DictPos(ex_results, ex_jobs[ex_i].endpoint)]))
    /\ ex_poll' = ex_poll + 1
    /\ Advance
    /\ UNCHANGED <<ex_workers, ex_timeout, ex_jobs, ex_state, ex_future, ex_file>>
    /\ UNCHANGED <<fr_vars, pj_vars, rc_vars, mn_vars, fw_vars, rr_vars>>

\* a failed check that leaves the loop where it is, without counting it
PollMiss_Forever ==
    /\ ex_pc = "poll"
    /\ ~ArtifactReady(ex_file[ex_i])
    /\ UNCHANGED <<ex_vars, fr_vars, pj_vars, rc_vars, mn_vars, fw_vars, rr_vars>>

\* time.sleep(0.5); the artifact is not there
PollMiss ==
    /\ ex_pc = "poll"
    /\ ex_poll < PollAttempts
    /\ ~ArtifactReady(ex_file[ex_i])
    /\ ex_seen' = [ex_seen EXCEPT ![ex_i] = Append(@, FALSE)]
    /\ ex_poll' = ex_poll + 1
    /\ IF ex_poll + 1 = PollAttempts
       THEN Advance
       ELSE ex_pc' = "poll" /\ ex_i' = ex_i
    /\ UNCHANGED <<ex_workers, ex_timeout, ex_jobs, ex_state, ex_future,
                   ex_file, ex_results>>
    /\ UNCHANGED <<fr_vars, pj_vars, rc_vars, mn_vars, fw_vars, rr_vars>>

\* every pool thread has ended: the exception leaves execute_jobs
Unwound ==
    /\ ex_pc = "unwinding"
    /\ \A j \in 1..Len(ex_jobs) : ex_state[j] = "finished"
    /\ ex_pc' = "raised"
    /\ UNCHANGED <<ex_workers, ex_timeout, ex_jobs, ex_i, ex_state, ex_future,
                   ex_file, ex_results, ex_poll, ex_seen>>
    /\ UNCHANGED <<fr_vars, pj_vars, rc_vars, mn_vars, fw_vars, rr_vars>>

NextExec ==
    \/ PoolRejects
    \/ PoolCreated
    \/ Submit
    \/ \E j \in 1..Len(ex_jobs) : StartJob(j)
    \/ \E j \in 1..Len(ex_jobs) : LaunchFails(j)
    \/ \E j \in 1..Len(ex_jobs) : JobExits(j)
    \/ \E j \in 1..Len(ex_jobs) : JobTimesOut(j)
    \/ \E j \in 1..Len(ex_jobs) : ArtifactWritten(j)
    \/ CollectResult
    \/ CollectCleanupError
    \/ CollectRaises
    \/ PollFound
    \/ PollMiss
    \/ Unwound

SpecExec == InitExec /\ [][NextExec]_vars

(***************************************************************************)
(* Specification SpecExecFair: SpecExec with the scheduling the code       *)
(* relies on.  The calling thread keeps running; a pool thread that is     *)
(* free takes the job at the head of the queue; and the process of a       *)
(* started job ends, by itself or killed at args.timeout.  Nothing obliges *)
(* the external tool to write its artifact.                                *)
(***************************************************************************)
CallerStep ==
    \/ PoolRejects
    \/ PoolCreated
    \/ Submit
    \/ CollectResult
    \/ CollectCleanupError
    \/ CollectRaises
    \/ PollFound
    \/ PollMiss
    \/ Unwound

WorkerTakes(j) == j <= Len(ex_jobs) /\ (StartJob(j) \/ LaunchFails(j))

ProcessEnds(j) == j <= Len(ex_jobs) /\ (JobExits(j) \/ JobTimesOut(j))

FairExec ==
    /\ WF_vars(CallerStep)
    /\ \A j \in 1..MaxJobs : WF_vars(WorkerTakes(j))
    /\ \A j \in 1..MaxJobs : WF_vars(ProcessEnds(j))

SpecExecFair == SpecExec /\ FairExec


(***************************************************************************)
(* Claims about execute_jobs                                               *)
(***************************************************************************)
\* the collection loop has dealt with job j, polling included
Collected(j) ==
    \/ ex_pc = "returned"
    \/ ex_pc \in {"collect", "poll", "unwinding", "raised"} /\ j < ex_i

EntryOf(j) == ex_results[DictPos(ex_results, ex_jobs[j].endpoint)]

SawArtifact(j) == \E k \in 1..Len(ex_seen[j]) : ex_seen[j][k]

\* C5: for a job that exited with status 1 and the cleanup pattern in its
\* stderr, the recorded outcome ends with rc = 0 and the explanatory note if
\* one of the polls found the artifact as a non-empty regular file, and keeps
\* rc = 1 and the original stderr if none of the polls of the window did.
C5_Reclassification ==
    \A j \in 1..Len(ex_jobs) :
        (Collected(j) /\ is_xvfb_cleanup_error(ex_future[j])) =>
            IF SawArtifact(j)
            THEN EntryOf(j).rc = 0 /\ EntryOf(j).stderr = S_ignored
            ELSE /\ Len(ex_seen[j]) = PollAttempts
                 /\ EntryOf(j).rc = 1
                 /\ EntryOf(j).stderr = ex_future[j].stderr

\* a cleanup-error job was reclassified by a poll later than the first
C5_Witness ==
    \E j \in 1..Len(ex_jobs) :
        /\ Collected(j)
        /\ is_xvfb_cleanup_error(ex_future[j])
        /\ Len(ex_seen[j]) >= 2
        /\ ex_seen[j][Len(ex_seen[j])]
        /\ EntryOf(j).rc = 0

\* C6: execute_jobs returns only after every submitted job's process has
\* ended, and the mapping it returns holds exactly one outcome per job, under
\* the job's endpoint, with that job's out_path and that job's rc and stderr
\* (as run_command returned them, or reclassified from them).
C6_Barrier ==
    ex_pc = "returned" =>
        /\ \A j \in 1..Len(ex_jobs) : ex_state[j] = "finished"
        /\ Len(ex_results) = Len(ex_jobs)
        /\ \A j \in 1..Len(ex_jobs) :
              /\ Cardinality({i \in 1..Len(ex_results) :
                                 ex_results[i].endpoint = ex_jobs[j].endpoint}) = 1
              /\ EntryOf(j).out_path = ex_jobs[j].out_path
              /\ EntryOf(j).out_name = ex_jobs[j].out_name
              /\ ex_future[j].kind = "result"
              /\ \/ /\ EntryOf(j).rc = ex_future[j].rc
                    /\ EntryOf(j).stderr = ex_future[j].stderr
                 \/ /\ is_xvfb_cleanup_error(ex_future[j])
                    /\ EntryOf(j) = Reclassify(OutcomeEntry(ex_jobs[j], ex_future[j]))

\* execute_jobs returned the outcomes of two jobs that ended differently
C6_Witness ==
    /\ ex_pc = "returned"
    /\ Len(ex_jobs) >= 2
    /\ ex_future[1].rc # ex_future[2].rc
    /\ EntryOf(1).rc = ex_future[1].rc
    /\ EntryOf(2).rc = ex_future[2].rc

\* C7: a job that ends with a non-zero exit, a timeout or a launch failure
\* never makes execute_jobs raise, and every job's outcome is in the mapping
\* once the call is over.
C7_FailedJobNeverAborts ==
    /\ ex_pc # "raised"
    /\ ex_pc = "returned" =>
           \A j \in 1..Len(ex_jobs) : DictHas(ex_results, ex_jobs[j].endpoint)

\* C8: at no time do more external processes run than args.workers.
C8_BoundedParallelism == Cardinality(Running) <= ex_workers

\* every worker is busy while a submitted job waits in the queue
C8_Witness ==
    /\ ex_workers >= 1
    /\ Cardinality(Running) = ex_workers
    /\ \E j \in 1..Len(ex_jobs) : ex_state[j] = "queued"

Recorded(j) == DictHas(ex_results, ex_jobs[j].endpoint)

\* C19 as stated: the polling loop of a job runs in the pool worker that ran
\* the job, and no other job's ended process waits for it to be collected.
C19_Original ==
    ex_pc = "poll" =>
        /\ ex_state[ex_i] = "running"
        /\ \A k \in 1..Len(ex_jobs) :
               (k # ex_i /\ ex_state[k] = "finished") => Recorded(k)

\* C19 amended: the polling loop runs in the thread that called
\* execute_jobs, inside the collection loop: the job's worker has already
\* returned, the loop starts as soon as the cleanup-error outcome is
\* recorded and ends before any later job's outcome is, so later jobs are
\* collected only after it.
C19_Amended ==
    /\ ex_pc = "poll" =>
           /\ ex_state[ex_i] = "finished"
           /\ is_xvfb_cleanup_error(ex_future[ex_i])
           /\ Recorded(ex_i)
           /\ \A k \in (ex_i + 1)..Len(ex_jobs) : ~Recorded(k)
    /\ \A j \in 1..Len(ex_jobs) :
           (/\ Recorded(j)
            /\ is_xvfb_cleanup_error(ex_future[j])
            /\ ~SawArtifact(j)
            /\ Len(ex_seen[j]) < PollAttempts) => (ex_pc = "poll" /\ ex_i = j)

\* while the caller polls for one job, a later job's process has ended and
\* its outcome waits to be collected
C19_Witness ==
    /\ ex_pc = "poll"
    /\ ex_poll >= 1
    /\ \E k \in (ex_i + 1)..Len(ex_jobs) : ex_state[k] = "finished" /\ ~Recorded(k)

Over == ex_pc \in {"returned", "raised", "rejected"}

\* C20: a polling loop makes at most PollAttempts checks and none after a
\* check that found the artifact, and execute_jobs comes to an end when every
\* started process ends (by itself or at the per-job timeout).
C20_PollingTerminates ==
    /\ [](\A j \in 1..Len(ex_jobs) :
             /\ Len(ex_seen[j]) <= PollAttempts
             /\ \A k \in 1..(Len(ex_seen[j]) - 1) : ~ex_seen[j][k])
    /\ <>Over

\* execute_jobs returned after a polling loop used up all its checks
C20_Witness ==
    /\ ex_pc = "returned"
    /\ \E j \in 1..Len(ex_jobs) : Len(ex_seen[j]) = PollAttempts /\ ~SawArtifact(j)

\* exit status exactly 1 and both cleanup markers in the stderr
StatusOneWithPattern(res) ==
    /\ res.rc = 1
    /\ Contains(res.stderr, S_kill)
    /\ Contains(res.stderr, S_no_existe)

\* C21: polling takes place only for a job whose exit status is exactly 1
\* and whose stderr holds both cleanup markers; for every other collected
\* outcome (status 0, another non-zero status, -1, -2, status 1 without the
\* pattern) no poll is made and the recorded rc and stderr are those
\* run_command returned, whatever the state of the job's artifact.
C21_ReclassificationOnlyOnPattern ==
    \A j \in 1..Len(ex_jobs) :
        /\ Len(ex_seen[j]) > 0 => StatusOneWithPattern(ex_future[j])
        /\ (Recorded(j) /\ ~StatusOneWithPattern(ex_future[j])) =>
               /\ ex_seen[j] = <<>>
               /\ ~(ex_pc = "poll" /\ ex_i = j)
               /\ EntryOf(j).rc = ex_future[j].rc
               /\ EntryOf(j).stderr = ex_future[j].stderr

\* a job that exited with status 1 and only one of the markers was recorded
\* as it ended, its artifact being a non-empty file, and so was a job that
\* could not be launched (rc = -2)
C21_Witness ==
    /\ ex_pc = "returned"
    /\ \E j \in 1..Len(ex_jobs) :
          /\ ex_future[j].rc = 1
          /\ ex_future[j].stderr = StderrKillOnly
          /\ ex_file[j] = "data"
          /\ ex_seen[j] = <<>>
          /\ EntryOf(j).rc = 1
    /\ \E j \in 1..Len(ex_jobs) : EntryOf(j).rc = 0 - 2

\* C22: two jobs of a run whose processes run at the same time name no
\* common resource that either of them writes.
C22_NoSharedWritable ==
    \A j \in Running : \A k \in Running :
        j # k => WritesOf(ex_jobs[j]) \cap WritesOf(ex_jobs[k]) = {}

\* the part of C22 that holds: the artifacts of two jobs running at the same
\* time are distinct files
C22_DistinctArtifacts ==
    \A j \in Running : \A k \in Running :
        j # k => ArgAfter(ex_jobs[j].cmd, <<"-", "o">>) \cap ArgAfter(ex_jobs[k].cmd, <<"-", "o">>) = {}

\* C16: run_command never raises: the future of every ended job holds a
\* result, rc = -1 with the timeout marker after the captured stderr for a
\* timeout, rc = -2 for a failed launch, the exit status otherwise; and an
\* outcome with rc -1 or -2 is recorded as it is, never reclassified.
C16_RunCommandNeverRaises ==
    \A j \in 1..Len(ex_jobs) :
        ex_state[j] = "finished" =>
            /\ ex_future[j].kind = "result"
            /\ ex_future[j].rc = 0 - 1 =>
                   /\ Len(ex_future[j].stderr) >= Len(S_timeout_marker)
                   /\ SubSeq(ex_future[j].stderr,
                             Len(ex_future[j].stderr) - Len(S_timeout_marker) + 1,
                             Len(ex_future[j].stderr)) = S_timeout_marker
            /\ ex_future[j].rc = 0 - 2 => ex_future[j].stderr = S_oserror
            /\ (Collected(j) /\ ex_future[j].rc < 0) =>
                   /\ EntryOf(j).rc = ex_future[j].rc
                   /\ EntryOf(j).stderr = ex_future[j].stderr

(***************************************************************************)
(* Output artifacts, try_parse_csv and the reconciliation loop of          *)
(* TESTRunner.run                                                          *)
(***************************************************************************)
\* What is at an out_path.  kind is "absent" (nothing there), "dir" (not a
\* regular file), "unreadable" (a file that open() or the csv module
\* rejects) or "file"; lines holds a file's lines, each the sequence of its
\* comma-separated cells (a blank line has none).
Absent == [kind |-> "absent", lines |-> <<>>]

Directory == [kind |-> "dir", lines |-> <<>>]

Unreadable == [kind |-> "unreadable", lines |-> <<>>]

File(lines) == [kind |-> "file", lines |-> lines]

S_eacces == <<"[", "E", "r", "r", "n", "o", " ", "1", "3", "]", " ", "P", "e", "r", "m", "i", "s", "s", "i", "o", "n", " ", "d", "e", "n", "i", "e", "d">>

S_attr_error == <<"'", "N", "o", "n", "e", "T", "y", "p", "e", "'", " ", "o", "b", "j", "e", "c", "t", " ", "h", "a", "s", " ", "n", "o", " ", "a", "t", "t", "r", "i", "b", "u", "t", "e", " ", "'", "l", "o", "w", "e", "r", "'">>

\* the dict csv.DictReader builds from one data line: short lines are filled
\* with None, the cells beyond the header go under the None key
DictRow(header, cells) ==
    LET named == [i \in 1..Len(header) |->
                     Field(header[i], IF i <= Len(cells) THEN Str(cells[i]) ELSE NoneV)]
    IN  IF Len(cells) > Len(header)
        THEN Append(named, [k |-> <<>>, knone |-> TRUE,
                            v |-> [none |-> FALSE,
                                   s |-> SubSeq(cells, Len(header) + 1, Len(cells))]])
        ELSE named

\* list(csv.DictReader(fh)): the first line names the columns, blank lines
\* are skipped
DictReader(lines) ==
    LET NotBlank(l) == l # <<>>
        data == SelectSeq(Tail(lines), NotBlank)
    IN  [i \in 1..Len(data) |-> DictRow(lines[1], data[i])]

\* "," in first
FirstLineHasComma(lines) == lines # <<>> /\ Len(lines[1]) >= 2

Parsed(type, rows, text, error) == [type |-> type, rows |-> rows, text |-> text, error |-> error]

\* try_parse_csv handing every non-empty file to csv.DictReader, without
\* the test on the first line
try_parse_csv_NoCommaTest(art) ==
    IF art.kind # "file" THEN Parsed("error", <<>>, <<>>, S_eacces)
    ELSE IF art.lines # <<>>
         THEN Parsed("csv", DictReader(art.lines), <<>>, <<>>)
    ELSE Parsed("text", <<>>, art.lines, <<>>)

\* try_parse_csv(path) for an existing path
try_parse_csv(art) ==
    IF art.kind # "file" THEN Parsed("error", <<>>, <<>>, S_eacces)
    ELSE IF FirstLineHasComma(art.lines)
         THEN Parsed("csv", DictReader(art.lines), <<>>, <<>>)
    ELSE Parsed("text", <<>>, art.lines, <<>>)

\* raw_data=parsed
RawParsed(parsed) == [kind |-> parsed.type, rows |-> parsed.rows,
                      text |-> IF parsed.type = "error" THEN <<parsed.error>> ELSE parsed.text]

\* mol_idx = int(row.get("Index", 0)), 0 when int() raises
MolIdx(row) ==
    IF ~HasKey(row, K_Index) THEN 0
    ELSE IF Get(row, K_Index).none THEN 0
    ELSE IF IsIntText(Get(row, K_Index).s) THEN ParseInt(Get(row, K_Index).s)
    ELSE 0

\* mol_idx in molecules_map
MolKnown(map, idx) == \E i \in 1..Len(map) : map[i].idx = idx

MolPos(map, idx) == CHOOSE i \in 1..Len(map) : map[i].idx = idx

\* molecules_map[mol_idx].properties[endpoint] = ep_res
SetProperty(map, idx, ep, res) ==
    [i \in 1..Len(map) |->
        IF map[i].idx = idx
        THEN [map[i] EXCEPT !.properties = DictSet(@, ep, [endpoint |-> ep, res |-> res])]
        ELSE map[i]]

\* for mol_idx in molecules_map: molecules_map[mol_idx].properties[endpoint] = res
SetAll(map, ep, res) ==
    [i \in 1..Len(map) |->
        [map[i] EXCEPT !.properties = DictSet(@, ep, [endpoint |-> ep, res |-> res])]]

\* the row loop creating a molecule for an Index the batch does not have
RECURSIVE ApplyRows_Creating(_, _, _, _)
ApplyRows_Creating(map, rows, i, ep) ==
    IF i > Len(rows) THEN [raised |-> FALSE, map |-> map]
    ELSE LET idx == MolIdx(rows[i])
             m2 == IF MolKnown(map, idx) THEN map
                   ELSE Append(map, [idx |-> idx, smiles |-> <<>>, properties |-> <<>>])
             r == from_row_data(rows[i], DescName(ep))
         IN  IF r.raised THEN [raised |-> TRUE, map |-> map]
             ELSE ApplyRows_Creating(SetProperty(m2, idx, ep, r.res), rows, i + 1, ep)

\* the row loop keeping the entry of the first row of an Index
RECURSIVE ApplyRows_FirstWins(_, _, _, _)
ApplyRows_FirstWins(map, rows, i, ep) ==
    IF i > Len(rows) THEN [raised |-> FALSE, map |-> map]
    ELSE LET idx == MolIdx(rows[i])
         IN  IF MolKnown(map, idx)
             THEN LET r == from_row_data(rows[i], DescName(ep))
                  IN  IF r.raised THEN [raised |-> TRUE, map |-> map]
                      ELSE IF DictHas(map[MolPos(map, idx)].properties, ep)
                           THEN ApplyRows_FirstWins(map, rows, i + 1, ep)
                           ELSE ApplyRows_FirstWins(SetProperty(map, idx, ep, r.res), rows, i + 1, ep)
             ELSE ApplyRows_FirstWins(map, rows, i + 1, ep)

\* for row in parsed["data"]: ... from row i on; raised when from_row_data
\* raised on a row of a known molecule
RECURSIVE ApplyRows(_, _, _, _)
ApplyRows(map, rows, i, ep) ==
    IF i > Len(rows) THEN [raised |-> FALSE, map |-> map]
    ELSE LET idx == MolIdx(rows[i])
         IN  IF MolKnown(map, idx)
             THEN LET r == from_row_data(rows[i], DescName(ep))
                  IN  IF r.raised THEN [raised |-> TRUE, map |-> map]
                      ELSE ApplyRows(SetProperty(map, idx, ep, r.res), rows, i + 1, ep)
             ELSE ApplyRows(map, rows, i + 1, ep)

\* the outcome of the non-CSV branch
BlobResult(ep, parsed) == EndpointResult(DescName(ep), NoFloat, NoneV, RawParsed(parsed))

\* the outcome of the except branch
ExceptionResult(ep, text) == EndpointResult(DescName(ep), NoFloat, Str(text), RawNone)

\* the missing-file outcome without its marker
MissingResult_NoMarker(ep) == EndpointResult(DescName(ep), NoFloat, NoneV, RawNone)

\* the outcome of the missing-file branch
MissingResult(ep) == EndpointResult(DescName(ep), NoFloat, NoneV, RawMissing)

\* path and os.path.exists(path) and os.path.isfile(path)
IsRegularFile(art) == art.kind \in {"file", "unreadable"}

\* [molecules_map[k] for k in sorted(molecules_map.keys())]
Ordered(map) ==
    LET Rank(i) == Cardinality({j \in 1..Len(map) : map[j].idx < map[i].idx}) + 1
        At(k) == map[CHOOSE i \in 1..Len(map) : Rank(i) = k]
    IN  [k \in 1..Len(map) |-> [smiles |-> At(k).smiles, properties |-> At(k).properties]]

(***************************************************************************)
(* Specification SpecRun: the reconciliation of 1..MaxEndpoints outcomes   *)
(* into a batch of 1..MaxMolecules molecules.  The first endpoint's        *)
(* artifact ranges over every file of a header and up to MaxRows of the    *)
(* data lines below, and over the other shapes; the later endpoints'       *)
(* artifacts range over OtherDisk.                                         *)
(***************************************************************************)
MaxMolecules == 2

MaxEndpoints == 2

MaxRows == 2

SmilesPool == <<<<"C", "C", "O">>, <<"C">>, <<"C", "C", "O">>, <<"N">>>>

H_IndexPred == <<<<"I", "n", "d", "e", "x">>, <<"P", "r", "e", "d", "_", "V", "a", "l", "u", "e">>>>

H_IndexPredError == <<<<"I", "n", "d", "e", "x">>, <<"P", "r", "e", "d", "_", "V", "a", "l", "u", "e">>, <<"E", "r", "r", "o", "r">>>>

DataLines ==
    { <<<<"1">>, <<"3", ".", "1", "4">>>>,
      <<<<"2">>, <<"n", "/", "a">>, <<"b", "a", "d">>>>,
      <<<<"0">>, <<"2", ",", "5">>, <<>>>>,
      <<<<"2", ".", "0">>, <<"3", ".", "1", "4">>, <<>>>>,
      <<<<"9">>, <<"3", ".", "1", "4">>, <<>>>>,
      <<<<"1">>, <<"n", "/", "a">>, <<"b", "a", "d">>, <<"e", "x", "t", "r", "a">>>>,
      <<<<"-", "1">>, <<"7">>, <<>>>>,
      <<<<"1">>, <<"n", "/", "a">>, <<>>>>,
      <<>> }

TableFiles ==
    { File(<<H_IndexPredError>> \o ls) :
        ls \in UNION { [1..n -> DataLines] : n \in 0..MaxRows } }

OtherDisk ==
    { Absent, Directory, Unreadable,
      File(<<>>),
      File(<<<<<<"n", "o", " ", "r", "e", "s", "u", "l", "t", "s">>>>>>),
      File(<<<<<<"n", "o", " ", "r", "e", "s", "u", "l", "t", "s">>>>, <<<<"1">>, <<"7">>>>>>),
      File(<<H_IndexPred>>),
      File(<<H_IndexPred, <<<<"1">>, <<"2", ",", "5">>>>, <<<<"2">>, <<"7">>>>>>),
      File(<<H_IndexPredError, <<<<"1">>, <<"n", "/", "a">>, <<"b", "a", "d">>, <<"e", "x", "t", "r", "a">>>>>>) }

FirstDisk == TableFiles \cup OtherDisk

JobRcs == {0, 1, 0 - 1}

InitRun ==
    /\ \E n \in 1..MaxMolecules : rc_smiles = SubSeq(SmilesPool, 1, n)
    /\ \E e \in 1..MaxEndpoints :
          /\ \E rcs \in [1..e -> JobRcs] :
                rc_results =
                    LET jobs == prepare_jobs(get_endpoints_from_description(
                                    SubSeq(ENDPOINTS_DESCRIPTION, 1, e)), <<"a", "1">>, TRUE)
                    IN  [k \in 1..e |-> OutcomeEntry(jobs[k], Result(rcs[k], <<>>))]
          /\ rc_disk \in { d \in [1..e -> FirstDisk] : \A k \in 2..e : d[k] \in OtherDisk }
    /\ rc_pc = "start"
    /\ rc_i = 1
    /\ rc_map = <<>>
    /\ rc_final = <<>>
    /\ FrIdle /\ PjIdle /\ ExIdle /\ MnIdle /\ FwIdle /\ RrIdle

\* for idx, smiles in enumerate(smiles_all, 1): molecules_map[idx] = ...
InitMolecules ==
    /\ rc_pc = "start"
    /\ rc_map' = [i \in 1..Len(rc_smiles) |->
                     [idx |-> i, smiles |-> rc_smiles[i], properties |-> <<>>]]
    /\ rc_pc' = "loop"
    /\ UNCHANGED <<rc_smiles, rc_results, rc_disk, rc_i, rc_final>>
    /\ UNCHANGED <<fr_vars, pj_vars, ex_vars, mn_vars, fw_vars, rr_vars>>

CurEndpoint == rc_results[rc_i].endpoint

CurParsed == try_parse_csv(rc_disk[rc_i])

InLoop == rc_pc = "loop" /\ rc_i <= Len(rc_results)

\* the table of a job recorded as failed treated as a missing artifact
ReconcileCsv_SuccessOnly ==
    /\ InLoop
    /\ IsRegularFile(rc_disk[rc_i])
    /\ CurParsed.type = "csv" /\ CurParsed.rows # <<>>
    /\ ~ApplyRows(rc_map, CurParsed.rows, 1, CurEndpoint).raised
    /\ rc_map' = IF rc_results[rc_i].rc = 0
                  THEN ApplyRows(rc_map, CurParsed.rows, 1, CurEndpoint).map
                  ELSE SetAll(rc_map, CurEndpoint, MissingResult(CurEndpoint))
    /\ rc_i' = rc_i + 1
    /\ UNCHANGED <<rc_smiles, rc_results, rc_disk, rc_pc, rc_final>>
    /\ UNCHANGED <<fr_vars, pj_vars, ex_vars, mn_vars, fw_vars, rr_vars>>

\* the artifact is a table with data rows, and no row makes from_row_data raise
ReconcileCsv ==
    /\ InLoop
    /\ IsRegularFile(rc_disk[rc_i])
    /\ CurParsed.type = "csv" /\ CurParsed.rows # <<>>
    /\ ~ApplyRows(rc_map, CurParsed.rows, 1, CurEndpoint).raised
    /\ rc_map' = ApplyRows(rc_map, CurParsed.rows, 1, CurEndpoint).map
    /\ rc_i' = rc_i + 1
    /\ UNCHANGED <<rc_smiles, rc_results, rc_disk, rc_pc, rc_final>>
    /\ UNCHANGED <<fr_vars, pj_vars, ex_vars, mn_vars, fw_vars, rr_vars>>

\* the artifact is a table one of whose rows makes from_row_data raise: the
\* except branch gives every molecule the exception text
ReconcileRowRaises ==
    /\ InLoop
    /\ IsRegularFile(rc_disk[rc_i])
    /\ CurParsed.type = "csv" /\ CurParsed.rows # <<>>
    /\ ApplyRows(rc_map, CurParsed.rows, 1, CurEndpoint).raised
    /\ rc_map' = SetAll(rc_map, CurEndpoint, ExceptionResult(CurEndpoint, S_attr_error))
    /\ rc_i' = rc_i + 1
    /\ UNCHANGED <<rc_smiles, rc_results, rc_disk, rc_pc, rc_final>>
    /\ UNCHANGED <<fr_vars, pj_vars, ex_vars, mn_vars, fw_vars, rr_vars>>

\* a table without data rows handled as the structured case: no row, so no
\* molecule gets an entry
ReconcileBlob_EmptyTableStructured ==
    /\ InLoop
    /\ IsRegularFile(rc_disk[rc_i])
    /\ ~(CurParsed.type = "csv" /\ CurParsed.rows # <<>>)
    /\ rc_map' = IF CurParsed.type = "csv" THEN rc_map
                  ELSE SetAll(rc_map, CurEndpoint, BlobResult(CurEndpoint, CurParsed))
    /\ rc_i' = rc_i + 1
    /\ UNCHANGED <<rc_smiles, rc_results, rc_disk, rc_pc, rc_final>>
    /\ UNCHANGED <<fr_vars, pj_vars, ex_vars, mn_vars, fw_vars, rr_vars>>

\* the parse did not yield a table with data rows (text, no rows, or the
\* error try_parse_csv caught): the parsed payload goes to every molecule
ReconcileBlob ==
    /\ InLoop
    /\ IsRegularFile(rc_disk[rc_i])
    /\ ~(CurParsed.type = "csv" /\ CurParsed.rows # <<>>)
    /\ rc_map' = SetAll(rc_map, CurEndpoint, BlobResult(CurEndpoint, CurParsed))
    /\ rc_i' = rc_i + 1
    /\ UNCHANGED <<rc_smiles, rc_results, rc_disk, rc_pc, rc_final>>
    /\ UNCHANGED <<fr_vars, pj_vars, ex_vars, mn_vars, fw_vars, rr_vars>>

\* no regular file at out_path
ReconcileMissing ==
    /\ InLoop
    /\ ~IsRegularFile(rc_disk[rc_i])
    /\ rc_map' = SetAll(rc_map, CurEndpoint, MissingResult(CurEndpoint))
    /\ rc_i' = rc_i + 1
    /\ UNCHANGED <<rc_smiles, rc_results, rc_disk, rc_pc, rc_final>>
    /\ UNCHANGED <<fr_vars, pj_vars, ex_vars, mn_vars, fw_vars, rr_vars>>

\* ordered_molecules = [molecules_map[k] for k in sorted(molecules_map.keys())]
BuildResult ==
    /\ rc_pc = "loop"
    /\ rc_i > Len(rc_results)
    /\ rc_final' = Ordered(rc_map)
    /\ rc_pc' = "built"
    /\ UNCHANGED <<rc_smiles, rc_results, rc_disk, rc_i, rc_map>>
    /\ UNCHANGED <<fr_vars, pj_vars, ex_vars, mn_vars, fw_vars, rr_vars>>

NextRun ==
    \/ InitMolecules
    \/ ReconcileCsv
    \/ ReconcileRowRaises
    \/ ReconcileBlob
    \/ ReconcileMissing
    \/ BuildResult

SpecRun == InitRun /\ [][NextRun]_vars

(***************************************************************************)
(* Claims about the reconciliation                                         *)
(***************************************************************************)
\* the loop has dealt with the k-th outcome
Processed(k) == rc_pc \in {"loop", "built"} /\ k < rc_i

HasProp(props, ep) == DictHas(props, ep)

PropOf(props, ep) == props[DictPos(props, ep)].res

\* the molecule of the batch at 1-based position i, in molecules_map
MolAt(i) == rc_map[MolPos(rc_map, i)]

\* C1: for every endpoint whose artifact is absent or not a regular file when
\* it is reconciled, every molecule of the batch has an entry for that
\* endpoint with value None, error None and raw_data {"missing": True}.
C1_MissingArtifact ==
    \A k \in 1..Len(rc_results) :
        (Processed(k) /\ rc_disk[k].kind \in {"absent", "dir"}) =>
            \A i \in 1..Len(rc_smiles) :
                /\ MolKnown(rc_map, i)
                /\ HasProp(MolAt(i).properties, rc_results[k].endpoint)
                /\ LET r == PropOf(MolAt(i).properties, rc_results[k].endpoint)
                   IN  /\ r.value.none
                       /\ r.error.none
                       /\ r.raw_data = RawMissing
                /\ rc_pc = "built" =>
                       /\ Len(rc_final) >= i
                       /\ HasProp(rc_final[i].properties, rc_results[k].endpoint)
                       /\ PropOf(rc_final[i].properties, rc_results[k].endpoint)
                              = MissingResult(rc_results[k].endpoint)

\* a result was built for two molecules, the first endpoint's artifact
\* missing and the second endpoint's a table with rows
C1_Witness ==
    /\ rc_pc = "built"
    /\ Len(rc_smiles) >= 2
    /\ Len(rc_results) >= 2
    /\ rc_disk[1].kind = "absent"
    /\ rc_disk[2].kind = "file"
    /\ try_parse_csv(rc_disk[2]).rows # <<>>

\* C2: the result holds exactly the N molecules of the batch, the i-th being
\* the i-th input SMILES, each with at most E entries, all under requested
\* endpoints, whatever Index values the artifacts' rows carry.
C2_MoleculesAreTheBatch ==
    rc_pc = "built" =>
        /\ Len(rc_final) = Len(rc_smiles)
        /\ \A i \in 1..Len(rc_final) :
              /\ i <= Len(rc_smiles) => rc_final[i].smiles = rc_smiles[i]
              /\ Len(rc_final[i].properties) <= Len(rc_results)
              /\ \A q \in 1..Len(rc_final[i].properties) :
                    \E k \in 1..Len(rc_results) :
                        rc_results[k].endpoint = rc_final[i].properties[q].endpoint

\* a result was built from a table holding a row whose Index names no
\* molecule of the batch beside a row that names one
C2_Witness ==
    /\ rc_pc = "built"
    /\ Len(rc_smiles) >= 2
    /\ rc_disk[1].kind = "file"
    /\ LET rows == try_parse_csv(rc_disk[1]).rows
       IN  /\ \E r \in 1..Len(rows) : ~MolKnown(rc_map, MolIdx(rows[r]))
           /\ \E r \in 1..Len(rows) : MolKnown(rc_map, MolIdx(rows[r]))
    /\ \E i \in 1..Len(rc_final) : rc_final[i].properties # <<>>

\* reading or parsing the k-th artifact raises: open() or the csv module
\* inside try_parse_csv, or from_row_data on one of the rows
ParseRaises(k) ==
    \/ rc_disk[k].kind = "unreadable"
    \/ /\ rc_disk[k].kind = "file"
       /\ try_parse_csv(rc_disk[k]).type = "csv"
       /\ ApplyRows(rc_map, try_parse_csv(rc_disk[k]).rows, 1, rc_results[k].endpoint).raised

ExceptionText(k) == IF rc_disk[k].kind = "unreadable" THEN S_eacces ELSE S_attr_error

\* C10: when reading or parsing an existing artifact raises, every molecule
\* has for that endpoint an outcome with value None, the exception text as
\* error and raw_data None.
C10_ParseExceptionOutcome ==
    \A k \in 1..Len(rc_results) :
        (Processed(k) /\ ParseRaises(k)) =>
            \A i \in 1..Len(rc_smiles) :
                /\ HasProp(MolAt(i).properties, rc_results[k].endpoint)
                /\ PropOf(MolAt(i).properties, rc_results[k].endpoint)
                       = ExceptionResult(rc_results[k].endpoint, ExceptionText(k))

(***************************************************************************)
(* main() of run_test.py: TESTRunner(args), run(), the JSON report and the *)
(* optional CSV report                                                     *)
(***************************************************************************)
\* TESTRunner._resolve_java_binary: java says whether args.java is a path
\* (absolute, or holding a separator), whether that path is an executable
\* file, and whether shutil.which finds the name.  None: ValueError.
resolve_java_binary(java) ==
    IF java.path
    THEN IF java.executable THEN Str(A_java)
         ELSE IF java.on_path THEN Str(A_java) ELSE NoneV
    ELSE IF java.on_path THEN Str(A_java) ELSE NoneV

\* if not smiles_all
BatchEmpty_Never(smiles_all) == FALSE

BatchEmpty(smiles_all) == smiles_all = <<>>

\* what the artifact check of _handle_xvfb_cleanup sees of an artifact
FileState(art) ==
    IF art.kind = "absent" \/ art.kind = "dir" THEN "absent"
    ELSE IF art.kind = "file" /\ art.lines = <<>> THEN "empty"
    ELSE "data"

\* the entry execute_jobs leaves in results for one job, env being how the
\* job's process ended (proc) and the artifact it left (art)
JobOutcome(job, env) ==
    LET res == run_command(env.proc)
        entry == OutcomeEntry(job, res)
    IN  IF is_xvfb_cleanup_error(res) /\ ArtifactReady(FileState(env.art))
        THEN Reclassify(entry)
        ELSE entry

\* fut.result() re-raises for one of the jobs
ExecuteWouldRaise(jobs, env) ==
    \E j \in 1..Len(jobs) : run_command(env[j].proc).kind = "exception"

\* the body of the loop over results.items() for one endpoint
ReconcileOne(map, ep, art) ==
    IF IsRegularFile(art)
    THEN LET parsed == try_parse_csv(art)
         IN  IF parsed.type = "csv" /\ parsed.rows # <<>>
             THEN LET r == ApplyRows(map, parsed.rows, 1, ep)
                  IN  IF r.raised
                      THEN SetAll(map, ep, ExceptionResult(ep, S_attr_error))
                      ELSE r.map
             ELSE SetAll(map, ep, BlobResult(ep, parsed))
    ELSE SetAll(map, ep, MissingResult(ep))

\* for endpoint, meta in results.items(): ... from position k on; next is
\* molecules_map after the iteration, complete before the following one starts
RECURSIVE ReconcileAll(_, _, _, _)
ReconcileAll(map, results, disk, k) ==
    IF k > Len(results) THEN map
    ELSE LET next == ReconcileOne(map, results[k].endpoint, disk[k])
         IN  CASE next = next -> ReconcileAll(next, results, disk, k + 1)

\* molecules_map after the enumerate(smiles_all, 1) loop
MoleculesMap(smiles_all) ==
    [i \in 1..Len(smiles_all) |-> [idx |-> i, smiles |-> smiles_all[i], properties |-> <<>>]]

S_NA == <<"N", "A">>

\* a JSON-ready scalar: a number, or a string
JNum(v) == [type |-> "num", num |-> v, s |-> <<>>]

JStr(s) == [type |-> "str", num |-> NoFloat, s |-> s]

\* EndpointResult.to_dict with the test on value being its truthiness
EndpointToDict_Falsy(res) ==
    [name |-> res.name,
     value |-> IF res.value.none \/ res.value.m = 0 THEN JStr(S_NA) ELSE JNum(res.value),
     error |-> IF Truthy(res.error) THEN JStr(res.error.s) ELSE JStr(S_NA),
     raw_data |-> res.raw_data]

\* EndpointResult.to_dict
EndpointToDict(res) ==
    [name |-> res.name,
     value |-> IF ~res.value.none THEN JNum(res.value) ELSE JStr(S_NA),
     error |-> IF Truthy(res.error) THEN JStr(res.error.s) ELSE JStr(S_NA),
     raw_data |-> res.raw_data]

\* MoleculeResult.to_dict
MoleculeToDict(mol) ==
    [smiles |-> mol.smiles,
     properties |-> [i \in 1..Len(mol.properties) |->
                        [endpoint |-> mol.properties[i].endpoint,
                         res |-> EndpointToDict(mol.properties[i].res)]]]

S_now == <<"2", "0", "2", "5", "-", "0", "1", "-", "0", "1", "T", "0", "0", ":", "0", "0", ":", "0", "0">>

\* the metadata dict run() builds
Metadata(commands, args) ==
    [version |-> <<"1", ".", "0">>,
     timestamp |-> S_now,
     tool |-> <<"T", ".", "E", ".", "S", ".", "T", ".", " ", "R", "u", "n", "n", "e", "r">>,
     endpoint_count |-> Len(commands),
     workers |-> args.workers,
     timeout_sec |-> args.timeout]

\* TestResults.to_dict: "molecules" is a list
\* diagnostics = {"tmpdir": ..., "uuid": unique_id, ..., "note": ...}: the run's
\* identifier and the note, which depends on keep_tmp; the paths are not modelled
Diagnostics(args, unique_id) ==
    [uuid |-> unique_id,
     note |-> IF args.keep_tmp THEN "kept" ELSE "deleted"]

TestResultsToDict(molecules, metadata, diagnostics) ==
    [metadata |-> metadata,
     diagnostics |-> diagnostics,
     molecules |-> [kind |-> "list",
                    items |-> [i \in 1..Len(molecules) |-> MoleculeToDict(molecules[i])]]]

\* results["metadata"]["calculate"] = args.calculate, when args.calculate
WithCalculate(final, args) ==
    IF Truthy(args.calculate)
    THEN [final EXCEPT !.metadata = [calculate |-> args.calculate] @@ @]
    ELSE final

DigitChar(d) == <<"0", "1", "2", "3", "4", "5", "6", "7", "8", "9">>[d + 1]

RECURSIVE NatDigits(_)
NatDigits(n) == IF n < 10 THEN <<DigitChar(n)>> ELSE NatDigits(n \div 10) \o <<DigitChar(n % 10)>>

RECURSIVE PadZeros(_, _)
PadZeros(ds, n) == IF Len(ds) >= n THEN ds ELSE PadZeros(<<"0">> \o ds, n)

\* float.__repr__, as json.dump writes a float in the range where Python
\* uses no exponent: the shortest digits, with ".0" for a whole number
FloatRepr(v) ==
    LET mag == IF v.m < 0 THEN 0 - v.m ELSE v.m
        ds == PadZeros(NatDigits(mag), v.e + 1)
        ip == SubSeq(ds, 1, Len(ds) - v.e)
        fp == SubSeq(ds, Len(ds) - v.e + 1, Len(ds))
    IN  (IF v.m < 0 THEN <<"-">> ELSE <<>>) \o ip \o <<".">> \o (IF v.e = 0 THEN <<"0">> ELSE fp)

\* json.dump of a scalar: the token written
JsonToken(x) == IF x.type = "num" THEN [type |-> "num", text |-> FloatRepr(x.num)]
                ELSE [type |-> "str", text |-> x.s]

\* json.load of a token
JsonValue(tok) == IF tok.type = "num" THEN JNum(ParseFloat(tok.text)) ELSE JStr(tok.text)

\* json.dump(results, fh): the document, scalars as written
JsonDump(final) ==
    [metadata |-> final.metadata,
     diagnostics |-> final.diagnostics,
     molecules |-> [i \in 1..Len(final.molecules.items) |->
        [smiles |-> final.molecules.items[i].smiles,
         properties |-> [k \in 1..Len(final.molecules.items[i].properties) |->
            [endpoint |-> final.molecules.items[i].properties[k].endpoint,
             value |-> JsonToken(final.molecules.items[i].properties[k].res.value),
             error |-> JsonToken(final.molecules.items[i].properties[k].res.error)]]]]]

\* json.load of the document
JsonLoad(doc) ==
    [metadata |-> doc.metadata,
     diagnostics |-> doc.diagnostics,
     molecules |-> [i \in 1..Len(doc.molecules) |->
        [smiles |-> doc.molecules[i].smiles,
         properties |-> [k \in 1..Len(doc.molecules[i].properties) |->
            [endpoint |-> doc.molecules[i].properties[k].endpoint,
             value |-> JsonValue(doc.molecules[i].properties[k].value),
             error |-> JsonValue(doc.molecules[i].properties[k].error)]]]]]

\* write_csv_results(results, output_path).  results["molecules"].values()
\* (run_test.py:20 and :28) is called on what TestResults.to_dict returned,
\* a list: AttributeError, before the file is opened.  For a dict of
\* molecules each cell stays "NA": no property has a "row_data" key.
write_csv_results(results) ==
    IF results.molecules.kind # "dict"
    THEN [raised |-> TRUE, rows |-> <<>>]
    ELSE [raised |-> FALSE,
          rows |-> [i \in 1..Len(results.molecules.items) |->
                       [SMILES |-> results.molecules.items[i].smiles,
                        cells |-> [k \in 1..Len(results.molecules.items[i].properties) |-> S_NA]]]]

(***************************************************************************)
(* Specification SpecMain: one execution of main(), from the parsed        *)
(* command line to the exit status.  The environment decides how each      *)
(* job's process ends and what artifact it leaves: the first job ranges    *)
(* over EnvInputs, the next ones up to MaxVaried over LaterEnvInputs, and  *)
(* the others are clean runs (exit 0, a table).  The command line ranges   *)
(* over MainArgs.  --workers is at least 1 here (0 is PoolRejects of       *)
(* SpecExec); mkdtemp, rmtree and the writing of the JSON file are taken   *)
(* to succeed.                                                             *)
(***************************************************************************)
MaxVaried == 2

DefaultTimeout == [none |-> FALSE, sec |-> 5]

NoTimeout == [none |-> TRUE, sec |-> 0]

JavaInputs ==
    { [path |-> TRUE, executable |-> TRUE, on_path |-> FALSE],
      [path |-> TRUE, executable |-> FALSE, on_path |-> FALSE],
      [path |-> FALSE, executable |-> FALSE, on_path |-> TRUE],
      [path |-> FALSE, executable |-> FALSE, on_path |-> FALSE] }

CalcInputs == {NoneV, Str(E_BP), Str(JoinComma(<<E_LC50, E_spBP>>)), Str(E_XX)}

SmilesInputs == {<<>>, <<<<"C", "C", "O">>>>, <<<<"C", "C", "O">>, <<"C">>>>}

\* Index,Pred_Value,Error / 1,3.14, / 2,0,
TableClean == File(<<H_IndexPredError,
                     <<<<"1">>, <<"3", ".", "1", "4">>, <<>>>>,
                     <<<<"2">>, <<"0">>, <<>>>>>>)

\* Index,Pred_Value,Error / 1,NA, / 2,-2,5,bad
TableMixed == File(<<H_IndexPredError,
                     <<<<"1">>, <<"N", "A">>, <<>>>>,
                     <<<<"2">>, <<"-", "2", ".", "5", "0">>, <<"b", "a", "d">>>>>>)

TextBlob == File(<<<<<<"n", "o", " ", "r", "e", "s", "u", "l", "t", "s">>>>>>)

ArtInputs == {Absent, Unreadable, TextBlob, TableClean, TableMixed}

ProcInputs(timeout) ==
    {ProcExit(0, <<>>), ProcExit(1, StderrBoom), ProcExit(1, StderrCleanup)}
        \cup (IF timeout.none THEN {} ELSE {ProcTimeout(TRUE), ProcTimeout(FALSE)})

\* what can happen to one job: a process that could not be launched leaves
\* no artifact
EnvInputs(timeout) ==
    { [proc |-> p, art |-> a] : p \in ProcInputs(timeout), a \in ArtInputs }
        \cup { [proc |-> ProcOsError, art |-> Absent] }

CleanEnv == [proc |-> ProcExit(0, <<>>), art |-> TableClean]

LaterEnvInputs(timeout) ==
    { CleanEnv,
      [proc |-> ProcExit(0, <<>>), art |-> TableMixed],
      [proc |-> ProcExit(1, StderrBoom), art |-> Absent] }
        \cup (IF timeout.none THEN {} ELSE {[proc |-> ProcTimeout(TRUE), art |-> Absent]})

JavaFound == [path |-> TRUE, executable |-> TRUE, on_path |-> FALSE]

\* every --calculate, batch, timeout, --keep-tmp and --output-csv with the
\* default worker count and a --java that is an executable file; the other
\* --java and --workers values with every --calculate and batch
MainArgs ==
    { a \in [calculate : CalcInputs,
             java : JavaInputs,
             smiles : SmilesInputs,
             workers : {1, 6},
             timeout : {NoTimeout, DefaultTimeout},
             keep_tmp : BOOLEAN,
             output_csv : BOOLEAN] :
        (a.java # JavaFound \/ a.workers # 6) =>
            (a.timeout = NoTimeout /\ ~a.keep_tmp /\ ~a.output_csv) }

RunUid == <<"a", "1">>

InitMain ==
    /\ mn_args \in MainArgs
    /\ mn_pc = "start"
    /\ mn_cause = "none"
    /\ mn_tmpdir = "none"
    /\ mn_endpoints = <<>>
    /\ mn_jobs = <<>>
    /\ mn_started = 0
    /\ mn_disk = <<>>
    /\ mn_results = <<>>
    /\ mn_molecules = <<>>
    /\ mn_final = <<>>
    /\ mn_json = <<>>
    /\ mn_csv = <<>>
    /\ mn_exit = 0 - 1
    /\ FrIdle /\ PjIdle /\ ExIdle /\ RcIdle /\ FwIdle /\ RrIdle

\* except Exception as e: print(...); sys.exit(1)
Fails(cause) ==
    /\ mn_cause' = cause
    /\ mn_pc' = "exit"
    /\ mn_exit' = 1

\* TESTRunner(args) raises: the Java binary is not found, or (after it)
\* --calculate names an unknown endpoint
ConstructRaises ==
    /\ mn_pc = "start"
    /\ \/ /\ resolve_java_binary(mn_args.java).none
          /\ Fails("java")
       \/ /\ ~resolve_java_binary(mn_args.java).none
          /\ Truthy(mn_args.calculate) /\ Invalid(mn_args.calculate) # <<>>
          /\ Fails("endpoints")
    /\ UNCHANGED <<mn_args, mn_tmpdir, mn_endpoints, mn_jobs, mn_started, mn_disk,
                   mn_results, mn_molecules, mn_final, mn_json, mn_csv>>
    /\ UNCHANGED <<fr_vars, pj_vars, ex_vars, rc_vars, fw_vars, rr_vars>>

\* runner = TESTRunner(args)
Constructed ==
    /\ mn_pc = "start"
    /\ ~resolve_java_binary(mn_args.java).none
    /\ ~(Truthy(mn_args.calculate) /\ Invalid(mn_args.calculate) # <<>>)
    /\ mn_endpoints' = get_filtered_endpoints(mn_args.calculate)
    /\ mn_pc' = "constructed"
    /\ UNCHANGED <<mn_args, mn_cause, mn_tmpdir, mn_jobs, mn_started, mn_disk,
                   mn_results, mn_molecules, mn_final, mn_json, mn_csv, mn_exit>>
    /\ UNCHANGED <<fr_vars, pj_vars, ex_vars, rc_vars, fw_vars, rr_vars>>

\* run(): mkdtemp, then collect_smiles returns nothing: ValueError
RunNoSmiles ==
    /\ mn_pc = "constructed"
    /\ BatchEmpty(mn_args.smiles)
    /\ mn_tmpdir' = "exists"
    /\ Fails("smiles")
    /\ UNCHANGED <<mn_args, mn_endpoints, mn_jobs, mn_started, mn_disk,
                   mn_results, mn_molecules, mn_final, mn_json, mn_csv>>
    /\ UNCHANGED <<fr_vars, pj_vars, ex_vars, rc_vars, fw_vars, rr_vars>>

\* run(): mkdtemp, the input file, jobs = runner.prepare_jobs(...)
RunPrepares ==
    /\ mn_pc = "constructed"
    /\ ~BatchEmpty(mn_args.smiles)
    /\ mn_tmpdir' = "exists"
    /\ mn_jobs' = prepare_jobs(get_endpoints_from_description(mn_endpoints), RunUid, FALSE)
    /\ mn_pc' = "prepared"
    /\ UNCHANGED <<mn_args, mn_cause, mn_endpoints, mn_started, mn_disk,
                   mn_results, mn_molecules, mn_final, mn_json, mn_csv, mn_exit>>
    /\ UNCHANGED <<fr_vars, pj_vars, ex_vars, rc_vars, fw_vars, rr_vars>>

\* the environments of the jobs of this run
JobEnvs ==
    LET n == Len(mn_jobs)
        v == IF n < MaxVaried THEN n ELSE MaxVaried
    IN  { [j \in 1..n |-> IF j <= v THEN f[j] ELSE CleanEnv] :
            f \in { g \in [1..v -> EnvInputs(mn_args.timeout)] :
                       \A j \in 2..v : g[j] \in LaterEnvInputs(mn_args.timeout) } }

\* results = runner.execute_jobs(jobs): every job is submitted and its
\* process started; one future re-raises what run_command raised
ExecuteRaises ==
    /\ mn_pc = "prepared"
    /\ \E env \in JobEnvs :
          /\ ExecuteWouldRaise(mn_jobs, env)
          /\ mn_disk' = [j \in 1..Len(mn_jobs) |-> env[j].art]
    /\ mn_started' = Len(mn_jobs)
    /\ Fails("job")
    /\ UNCHANGED <<mn_args, mn_tmpdir, mn_endpoints, mn_jobs,
                   mn_results, mn_molecules, mn_final, mn_json, mn_csv>>
    /\ UNCHANGED <<fr_vars, pj_vars, ex_vars, rc_vars, fw_vars, rr_vars>>

\* results = runner.execute_jobs(jobs)
ExecuteReturns ==
    /\ mn_pc = "prepared"
    /\ \E env \in JobEnvs :
          /\ ~ExecuteWouldRaise(mn_jobs, env)
          /\ mn_disk' = [j \in 1..Len(mn_jobs) |-> env[j].art]
          /\ mn_results' = [j \in 1..Len(mn_jobs) |-> JobOutcome(mn_jobs[j], env[j])]
    /\ mn_started' = Len(mn_jobs)
    /\ mn_pc' = "executed"
    /\ UNCHANGED <<mn_args, mn_cause, mn_tmpdir, mn_endpoints, mn_jobs,
                   mn_molecules, mn_final, mn_json, mn_csv, mn_exit>>
    /\ UNCHANGED <<fr_vars, pj_vars, ex_vars, rc_vars, fw_vars, rr_vars>>

\* run(): the reconciliation, final = final_results.to_dict(), the removal
\* of the temporary directory unless keep_tmp, return final
RunReturns ==
    /\ mn_pc = "executed"
    /\ mn_molecules' = Ordered(ReconcileAll(MoleculesMap(mn_args.smiles), mn_results, mn_disk, 1))
    /\ mn_final' = TestResultsToDict(mn_molecules',
                       Metadata(get_endpoints_from_description(mn_endpoints), mn_args),
                       Diagnostics(mn_args, RunUid))
    /\ mn_tmpdir' = IF mn_args.keep_tmp THEN "exists" ELSE "removed"
    /\ mn_pc' = "returned"
    /\ UNCHANGED <<mn_args, mn_cause, mn_endpoints, mn_jobs, mn_started, mn_disk,
                   mn_results, mn_json, mn_csv, mn_exit>>
    /\ UNCHANGED <<fr_vars, pj_vars, ex_vars, rc_vars, fw_vars, rr_vars>>

\* main(): the calculate parameter goes to the metadata, json.dump(results)
WriteJson ==
    /\ mn_pc = "returned"
    /\ mn_final' = WithCalculate(mn_final, mn_args)
    /\ mn_json' = <<JsonDump(mn_final')>>
    /\ mn_pc' = "json"
    /\ UNCHANGED <<mn_args, mn_cause, mn_tmpdir, mn_endpoints, mn_jobs, mn_started,
                   mn_disk, mn_results, mn_molecules, mn_csv, mn_exit>>
    /\ UNCHANGED <<fr_vars, pj_vars, ex_vars, rc_vars, fw_vars, rr_vars>>

\* main(): if args.output_csv: write_csv_results(results, args.output_csv)
WriteCsv ==
    /\ mn_pc = "json"
    /\ mn_args.output_csv
    /\ IF write_csv_results(mn_final).raised
       THEN Fails("csv") /\ mn_csv' = mn_csv
       ELSE /\ mn_csv' = <<write_csv_results(mn_final).rows>>
            /\ mn_pc' = "exit" /\ mn_exit' = 0 /\ mn_cause' = mn_cause
    /\ UNCHANGED <<mn_args, mn_tmpdir, mn_endpoints, mn_jobs, mn_started,
                   mn_disk, mn_results, mn_molecules, mn_final, mn_json>>
    /\ UNCHANGED <<fr_vars, pj_vars, ex_vars, rc_vars, fw_vars, rr_vars>>

\* main() returns: exit status 0
ExitOk ==
    /\ mn_pc = "json"
    /\ ~mn_args.output_csv
    /\ mn_pc' = "exit"
    /\ mn_exit' = 0
    /\ UNCHANGED <<mn_args, mn_cause, mn_tmpdir, mn_endpoints, mn_jobs, mn_started,
                   mn_disk, mn_results, mn_molecules, mn_final, mn_json, mn_csv>>
    /\ UNCHANGED <<fr_vars, pj_vars, ex_vars, rc_vars, fw_vars, rr_vars>>

NextMain ==
    \/ ConstructRaises
    \/ Constructed
    \/ RunNoSmiles
    \/ RunPrepares
    \/ ExecuteRaises
    \/ ExecuteReturns
    \/ RunReturns
    \/ WriteJson
    \/ WriteCsv
    \/ ExitOk

SpecMain == InitMain /\ [][NextMain]_vars

(***************************************************************************)
(* Claims about main() and TESTRunner.run                                  *)
(***************************************************************************)
\* the configuration errors, read off the command line
JavaUnresolvable == ~(mn_args.java.path /\ mn_args.java.executable) /\ ~mn_args.java.on_path

NamesUnknownEndpoint ==
    /\ Truthy(mn_args.calculate)
    /\ \E i \in 1..Len(Split(mn_args.calculate.s, ",")) :
          ~InSeq(Strip(Split(mn_args.calculate.s, ",")[i]), ENDPOINTS_DESCRIPTION)

ConfigurationError == JavaUnresolvable \/ NamesUnknownEndpoint \/ mn_args.smiles = <<>>

\* whether the artifact of job k is a table every row of which was classified
ParsedCleanly(k) ==
    /\ IsRegularFile(mn_disk[k])
    /\ try_parse_csv(mn_disk[k]).type = "csv"
    /\ try_parse_csv(mn_disk[k]).rows # <<>>
    /\ ~ApplyRows(MoleculesMap(mn_args.smiles), try_parse_csv(mn_disk[k]).rows, 1,
                  mn_jobs[k].endpoint).raised

\* the molecules as they would be with endpoint k alone
Alone(k) == Ordered(ReconcileOne(MoleculesMap(mn_args.smiles), mn_jobs[k].endpoint, mn_disk[k]))

\* C11: without a configuration error run() returns a result whatever the
\* jobs' outcomes and artifacts, and in that result the entries of an endpoint
\* whose artifact parsed cleanly are what that artifact alone gives.
C11_OnlyConfigErrorsFail ==
    /\ (mn_pc = "exit" /\ mn_final = <<>>) => mn_cause \in {"java", "endpoints", "smiles"}
    /\ mn_final # <<>> =>
          \A k \in 1..Len(mn_jobs) : ParsedCleanly(k) =>
              \A i \in 1..Len(mn_molecules) :
                  /\ HasProp(mn_molecules[i].properties, mn_jobs[k].endpoint)
                         = HasProp(Alone(k)[i].properties, mn_jobs[k].endpoint)
                  /\ HasProp(mn_molecules[i].properties, mn_jobs[k].endpoint) =>
                         PropOf(mn_molecules[i].properties, mn_jobs[k].endpoint)
                             = PropOf(Alone(k)[i].properties, mn_jobs[k].endpoint)

\* C12: with --calculate naming an unknown endpoint, an unresolvable Java
\* binary or an empty batch, no job is ever built, no process started and no
\* report written, and the process ends with exit status 1.
C12_ConfigErrorsFailEarly ==
    ConfigurationError =>
        /\ mn_jobs = <<>>
        /\ mn_started = 0
        /\ mn_json = <<>>
        /\ mn_csv = <<>>
        /\ mn_pc \in {"start", "constructed", "exit"}
        /\ mn_pc = "exit" => mn_exit = 1

\* the run of an empty batch, its endpoints and Java binary being fine, has
\* ended
C12_Witness ==
    /\ mn_pc = "exit"
    /\ mn_args.smiles = <<>>
    /\ ~JavaUnresolvable
    /\ ~NamesUnknownEndpoint
    /\ mn_cause = "smiles"

\* C13: when the process ends and retention was not requested, the temporary
\* directory run() created is gone, whether run() returned or raised; it is
\* left only when keep_tmp is set.
C13_TmpDirRemoved ==
    mn_pc = "exit" =>
        /\ ~mn_args.keep_tmp => mn_tmpdir # "exists"
        /\ mn_tmpdir = "exists" => mn_args.keep_tmp

\* C14: the metadata of a result records the requested endpoint identifiers
\* (as a list of them, or as the --calculate text that names them), a
\* timestamp, the number of jobs built, the worker count and the timeout.
C14_MetadataRecordsRun ==
    mn_json # <<>> =>
        LET md == mn_json[1].metadata
        IN  /\ \/ /\ "endpoints_requested" \in DOMAIN md
                  /\ md["endpoints_requested"] = mn_endpoints
               \/ /\ "calculate" \in DOMAIN md
                  /\ get_filtered_endpoints(md["calculate"]) = mn_endpoints
            /\ "timestamp" \in DOMAIN md
            /\ md["endpoint_count"] = Len(mn_jobs)
            /\ md["workers"] = mn_args.workers
            /\ md["timeout_sec"] = mn_args.timeout

\* C15: when a CSV report is requested and run() returned, the process ends
\* with status 0 and the CSV holds one row per molecule of the result.
C15_CsvReport ==
    (mn_pc = "exit" /\ mn_args.output_csv /\ mn_json # <<>>) =>
        /\ mn_exit = 0
        /\ mn_csv # <<>>
        /\ Len(mn_csv[1]) = Len(mn_molecules)
        /\ \A i \in 1..Len(mn_molecules) : mn_csv[1][i].SMILES = mn_molecules[i].smiles

\* the count, the order and the endpoints of the re-read report are those of
\* the result
SameShape(back) ==
    /\ Len(back.molecules) = Len(mn_molecules)
    /\ \A i \in 1..Len(mn_molecules) :
          /\ back.molecules[i].smiles = mn_molecules[i].smiles
          /\ Len(back.molecules[i].properties) = Len(mn_molecules[i].properties)
          /\ \A k \in 1..Len(mn_molecules[i].properties) :
                /\ back.molecules[i].properties[k].endpoint
                       = mn_molecules[i].properties[k].endpoint
                /\ back.molecules[i].properties[k].value
                       = IF mn_molecules[i].properties[k].res.value.none
                         THEN JStr(S_NA)
                         ELSE JNum(mn_molecules[i].properties[k].res.value)

\* C17 as stated: re-reading the JSON report gives the molecules in order,
\* each value ("NA" exactly when there is none), and each error: "NA"
\* exactly when the error is None or empty, the error text otherwise.
C17_Original ==
    mn_json # <<>> =>
        LET back == JsonLoad(mn_json[1])
        IN  /\ SameShape(back)
            /\ \A i \in 1..Len(mn_molecules) :
                  \A k \in 1..Len(mn_molecules[i].properties) :
                      LET err == mn_molecules[i].properties[k].res.error
                          got == back.molecules[i].properties[k].error
                      IN  /\ (got = JStr(S_NA)) <=> ~Truthy(err)
                          /\ Truthy(err) => got = JStr(err.s)

\* C17 amended: ... each error is "NA" when the error is None or empty and
\* the error text otherwise, so that an error whose text is "NA" reads the
\* same as no error.
C17_Amended ==
    mn_json # <<>> =>
        LET back == JsonLoad(mn_json[1])
        IN  /\ SameShape(back)
            /\ \A i \in 1..Len(mn_molecules) :
                  \A k \in 1..Len(mn_molecules[i].properties) :
                      LET err == mn_molecules[i].properties[k].res.error
                          got == back.molecules[i].properties[k].error
                      IN  got = IF Truthy(err) THEN JStr(err.s) ELSE JStr(S_NA)

\* a report was written that holds a value of 0, a negative value with an
\* error text, and an error whose text is "NA"
C17_Witness ==
    /\ mn_json # <<>>
    /\ \E i \in 1..Len(mn_molecules) : \E k \in 1..Len(mn_molecules[i].properties) :
          /\ ~mn_molecules[i].properties[k].res.value.none
          /\ mn_molecules[i].properties[k].res.value.m = 0
    /\ \E i \in 1..Len(mn_molecules) : \E k \in 1..Len(mn_molecules[i].properties) :
          /\ mn_molecules[i].properties[k].res.value.m < 0
          /\ Truthy(mn_molecules[i].properties[k].res.error)
    /\ \E i \in 1..Len(mn_molecules) : \E k \in 1..Len(mn_molecules[i].properties) :
          mn_molecules[i].properties[k].res.error = Str(S_NA)

(***************************************************************************)
(* Claims about the order and the inputs of the reconciliation             *)
(***************************************************************************)
\* the grid as a mapping: molecule position x endpoint -> outcome
GridOf(molecules) ==
    UNION { { <<i, molecules[i].properties[k].endpoint, molecules[i].properties[k].res>> :
                k \in 1..Len(molecules[i].properties) } : i \in 1..Len(molecules) }

\* the orders in which n outcomes can be reconciled
Orders(n) == { f \in [1..n -> 1..n] : \A a, b \in 1..n : a # b => f[a] # f[b] }

\* the loop over results.items() taking the first n outcomes in order f
ReconcileInOrder(f, n) ==
    Ordered(ReconcileAll(MoleculesMap(rc_smiles),
                         [k \in 1..n |-> rc_results[f[k]]],
                         [k \in 1..n |-> rc_disk[f[k]]], 1))

\* C23: the grid is the same for every order in which the outcomes are
\* reconciled: whatever part of the loop has run, taking the outcomes dealt
\* with so far in any other order gives each molecule the same outcome for
\* each endpoint.
C23_OrderIndependent ==
    rc_pc \in {"loop", "built"} =>
        \A f \in Orders(rc_i - 1) :
            GridOf(ReconcileInOrder(f, rc_i - 1)) = GridOf(Ordered(rc_map))

\* two endpoints were reconciled into a batch of two molecules, a table that
\* names a molecule outside the batch first and a missing artifact second
C23_Witness ==
    /\ rc_pc = "built"
    /\ Len(rc_results) = 2
    /\ Len(rc_smiles) = 2
    /\ rc_disk[1].kind = "file"
    /\ try_parse_csv(rc_disk[1]).type = "csv"
    /\ \E r \in 1..Len(try_parse_csv(rc_disk[1]).rows) : MolIdx(try_parse_csv(rc_disk[1]).rows[r]) = 9
    /\ \E r \in 1..Len(try_parse_csv(rc_disk[1]).rows) : MolIdx(try_parse_csv(rc_disk[1]).rows[r]) = 1
    /\ rc_disk[2] = Absent
    /\ Cardinality(GridOf(rc_final)) = 3

\* C24: when an endpoint's artifact is a file whose first line holds no
\* comma, every molecule of the batch has for that endpoint an outcome with
\* value None, error None and a raw_data payload of type text holding the
\* whole text of the artifact, the same for all molecules.
C24_OpaqueText ==
    \A k \in 1..Len(rc_results) :
        (Processed(k) /\ rc_disk[k].kind = "file" /\ ~FirstLineHasComma(rc_disk[k].lines)) =>
            /\ \A i \in 1..Len(rc_smiles) :
                   /\ HasProp(MolAt(i).properties, rc_results[k].endpoint)
                   /\ PropOf(MolAt(i).properties, rc_results[k].endpoint).value = NoFloat
                   /\ PropOf(MolAt(i).properties, rc_results[k].endpoint).error = NoneV
                   /\ PropOf(MolAt(i).properties, rc_results[k].endpoint).raw_data.kind = "text"
                   /\ PropOf(MolAt(i).properties, rc_results[k].endpoint).raw_data.text = rc_disk[k].lines
            /\ \A i, j \in 1..Len(rc_smiles) :
                   PropOf(MolAt(i).properties, rc_results[k].endpoint)
                       = PropOf(MolAt(j).properties, rc_results[k].endpoint)

\* a two-line artifact whose first line has no comma and whose second line
\* has one was reconciled into a batch of two molecules
C24_Witness ==
    /\ rc_pc = "built"
    /\ Len(rc_smiles) = 2
    /\ \E k \in 1..Len(rc_results) :
          /\ rc_disk[k].kind = "file"
          /\ Len(rc_disk[k].lines) = 2
          /\ ~FirstLineHasComma(rc_disk[k].lines)
          /\ Len(rc_disk[k].lines[2]) = 2
          /\ PropOf(rc_final[2].properties, rc_results[k].endpoint).raw_data.text = rc_disk[k].lines

\* the entries one endpoint has in the grid
ColumnOf(molecules, ep) == { t \in GridOf(molecules) : t[2] = ep }

\* C30: the grid depends only on the batch and on what each endpoint's
\* artifact is when it is reconciled, not on the exit status recorded for the
\* job: the entries of every reconciled endpoint are those its artifact
\* gives, whether the recorded rc is 0, 1 or the timeout sentinel -1.
C30_ArtifactAloneDecides ==
    \A k \in 1..Len(rc_results) :
        Processed(k) =>
            ColumnOf(Ordered(rc_map), rc_results[k].endpoint)
                = ColumnOf(Ordered(ReconcileOne(MoleculesMap(rc_smiles),
                                                rc_results[k].endpoint, rc_disk[k])),
                           rc_results[k].endpoint)

\* a job recorded as failed and a job recorded as timed out both left a
\* table, and a molecule has a numeric value from each
C30_Witness ==
    /\ rc_pc = "built"
    /\ Len(rc_results) = 2
    /\ rc_results[1].rc = 1
    /\ rc_results[2].rc = 0 - 1
    /\ \E i \in 1..Len(rc_final) :
          /\ HasProp(rc_final[i].properties, rc_results[1].endpoint)
          /\ ~PropOf(rc_final[i].properties, rc_results[1].endpoint).value.none
          /\ HasProp(rc_final[i].properties, rc_results[2].endpoint)
          /\ ~PropOf(rc_final[i].properties, rc_results[2].endpoint).value.none

(***************************************************************************)
(* FileWaiter.wait (io.py)                                                 *)
(*                                                                         *)
(* The clock counts poll intervals (0.5 s): timeout_sec seconds are        *)
(* 2 * timeout_sec intervals.  Only its comparison with the deadline       *)
(* matters, so it stops counting at MaxClock, past every deadline.         *)
(***************************************************************************)
MaxTimeout == 1

MaxPaths == 2

MaxClock == 2 * MaxTimeout + 2

MaxCount == 2

\* a counter that stops at MaxCount
Bump(n) == IF n < MaxCount THEN n + 1 ELSE n

\* a clock reading d intervals later
Later(t, d) == IF t + d < MaxClock THEN t + d ELSE MaxClock

\* timeout_sec as an Optional[int]
IntNone == [none |-> TRUE, n |-> 0]

IntOf(n) == [none |-> FALSE, n |-> n]

\* the truthiness of an Optional[int]
IntTruthy(v) == ~v.none /\ v.n # 0

\* os.path.exists(p) and os.path.isfile(p) and os.path.getsize(p) > 0
PathReady(f) == f = "data"

\* self.timeout_sec and time.time() >= deadline
TimedOut(timeout, now, deadline) == IntTruthy(timeout) /\ now >= deadline

FileStates == {"absent", "dir", "empty", "data"}

TimeoutInputs == {IntNone} \cup { IntOf(n) : n \in (0 - 1)..MaxTimeout }

InitWait ==
    /\ \E n \in 0..MaxPaths : fw_file \in [1..n -> FileStates]
    /\ fw_timeout \in TimeoutInputs
    /\ fw_pc = "start"
    /\ fw_k = 0
    /\ fw_good = FALSE
    /\ fw_now = 0
    /\ fw_deadline = 0
    /\ fw_ret = "none"
    /\ fw_polls = 0
    /\ fw_sleeps = 0
    /\ fw_started = 0
    /\ fw_first = "none"
    /\ fw_intime = FALSE
    /\ FrIdle /\ PjIdle /\ ExIdle /\ RcIdle /\ MnIdle /\ RrIdle

\* deadline = time.time() + (self.timeout_sec or 0)
WaitStart ==
    /\ fw_pc = "start"
    /\ fw_deadline' = fw_now + 2 * (IF IntTruthy(fw_timeout) THEN fw_timeout.n ELSE 0)
    /\ fw_pc' = "loop"
    /\ UNCHANGED <<fw_file, fw_timeout, fw_k, fw_good, fw_now, fw_ret, fw_polls,
                   fw_sleeps, fw_started, fw_first, fw_intime>>
    /\ UNCHANGED <<fr_vars, pj_vars, ex_vars, rc_vars, mn_vars, rr_vars>>

\* the verdict of a poll goes to the history of the call
PollEnds(good, started) ==
    /\ fw_good' = good
    /\ fw_first' = IF fw_first = "none" THEN (IF good THEN "good" ELSE "bad") ELSE fw_first
    /\ fw_intime' = (fw_intime \/ (good /\ started <= fw_deadline))
    /\ fw_pc' = "decide"

\* while True: all_good = True; for p in self.paths: (no path listed)
BeginPoll ==
    /\ fw_pc = "loop"
    /\ fw_polls' = Bump(fw_polls)
    /\ fw_started' = fw_now
    /\ fw_k' = 1
    /\ IF Len(fw_file) = 0
       THEN PollEnds(TRUE, fw_now)
       ELSE fw_good' = TRUE /\ fw_pc' = "poll" /\ UNCHANGED <<fw_first, fw_intime>>
    /\ UNCHANGED <<fw_file, fw_timeout, fw_now, fw_deadline, fw_ret, fw_sleeps>>
    /\ UNCHANGED <<fr_vars, pj_vars, ex_vars, rc_vars, mn_vars, rr_vars>>

\* one path of the for loop: all_good = False; break when it is not ready
CheckPath ==
    /\ fw_pc = "poll"
    /\ IF ~PathReady(fw_file[fw_k])
       THEN PollEnds(FALSE, fw_started) /\ fw_k' = fw_k
       ELSE IF fw_k = Len(fw_file)
            THEN PollEnds(TRUE, fw_started) /\ fw_k' = fw_k
            ELSE fw_k' = fw_k + 1 /\ UNCHANGED <<fw_good, fw_first, fw_intime, fw_pc>>
    /\ UNCHANGED <<fw_file, fw_timeout, fw_now, fw_deadline, fw_ret, fw_polls,
                   fw_sleeps, fw_started>>
    /\ UNCHANGED <<fr_vars, pj_vars, ex_vars, rc_vars, mn_vars, rr_vars>>

\* if all_good: return True
ReturnTrue ==
    /\ fw_pc = "decide"
    /\ fw_good
    /\ fw_ret' = "true"
    /\ fw_pc' = "done"
    /\ UNCHANGED <<fw_file, fw_timeout, fw_k, fw_good, fw_now, fw_deadline, fw_polls,
                   fw_sleeps, fw_started, fw_first, fw_intime>>
    /\ UNCHANGED <<fr_vars, pj_vars, ex_vars, rc_vars, mn_vars, rr_vars>>

\* if self.timeout_sec and time.time() >= deadline: return False
ReturnFalse ==
    /\ fw_pc = "decide"
    /\ ~fw_good
    /\ TimedOut(fw_timeout, fw_now, fw_deadline)
    /\ fw_ret' = "false"
    /\ fw_pc' = "done"
    /\ UNCHANGED <<fw_file, fw_timeout, fw_k, fw_good, fw_now, fw_deadline, fw_polls,
                   fw_sleeps, fw_started, fw_first, fw_intime>>
    /\ UNCHANGED <<fr_vars, pj_vars, ex_vars, rc_vars, mn_vars, rr_vars>>

\* time.sleep(self.poll_interval): at least one interval goes by
Sleep ==
    /\ fw_pc = "decide"
    /\ ~fw_good
    /\ ~TimedOut(fw_timeout, fw_now, fw_deadline)
    /\ fw_now' = Later(fw_now, 1)
    /\ fw_sleeps' = Bump(fw_sleeps)
    /\ fw_pc' = "loop"
    /\ UNCHANGED <<fw_file, fw_timeout, fw_k, fw_good, fw_deadline, fw_ret, fw_polls,
                   fw_started, fw_first, fw_intime>>
    /\ UNCHANGED <<fr_vars, pj_vars, ex_vars, rc_vars, mn_vars, rr_vars>>

\* time goes by between two steps of the call
Tick ==
    /\ fw_pc \in {"loop", "poll", "decide"}
    /\ fw_now < MaxClock
    /\ fw_now' = fw_now + 1
    /\ UNCHANGED <<fw_file, fw_timeout, fw_pc, fw_k, fw_good, fw_deadline, fw_ret,
                   fw_polls, fw_sleeps, fw_started, fw_first, fw_intime>>
    /\ UNCHANGED <<fr_vars, pj_vars, ex_vars, rc_vars, mn_vars, rr_vars>>

\* another process creates, fills, empties or removes a listed path
FileChanges(p) ==
    /\ fw_pc \in {"start", "loop", "poll", "decide"}
    /\ \E f \in FileStates \ {fw_file[p]} : fw_file' = [fw_file EXCEPT ![p] = f]
    /\ UNCHANGED <<fw_timeout, fw_pc, fw_k, fw_good, fw_now, fw_deadline, fw_ret,
                   fw_polls, fw_sleeps, fw_started, fw_first, fw_intime>>
    /\ UNCHANGED <<fr_vars, pj_vars, ex_vars, rc_vars, mn_vars, rr_vars>>

\* the steps of the thread that called wait
WaiterStep == WaitStart \/ BeginPoll \/ CheckPath \/ ReturnTrue \/ ReturnFalse \/ Sleep

NextWait ==
    \/ WaitStart
    \/ BeginPoll
    \/ CheckPath
    \/ ReturnTrue
    \/ ReturnFalse
    \/ Sleep
    \/ Tick
    \/ \E p \in 1..Len(fw_file) : FileChanges(p)

SpecWait == InitWait /\ [][NextWait]_vars

\* the calling thread keeps running; nothing is assumed of the clock beyond
\* what time.sleep itself lets go by, nor of the other processes
SpecWaitFair == SpecWait /\ WF_vars(WaiterStep)

(***************************************************************************)
(* Claims about FileWaiter.wait                                            *)
(***************************************************************************)
\* C25 as stated: wait returns True exactly when some poll made no later
\* than the timeout found every listed path a non-empty regular file, and
\* False otherwise; the files are checked before the timeout is consulted, so
\* a first poll that finds them all returns True without any sleep.
C25_TrueIffFoundInTime ==
    fw_pc = "done" =>
        /\ (fw_ret = "true") <=> fw_intime
        /\ (fw_ret = "false") <=> ~fw_intime
        /\ fw_polls >= 1
        /\ fw_first = "good" => (fw_ret = "true" /\ fw_sleeps = 0)

\* the part of C25 that holds: wait returns True exactly when its last poll
\* found every listed path, it polls before it consults the timeout, and a
\* first poll that finds the files returns True without any sleep, whatever
\* the timeout
C25_FirstPollDecides ==
    fw_pc = "done" =>
        /\ (fw_ret = "true") <=> fw_good
        /\ fw_polls >= 1
        /\ fw_first = "good" => (fw_ret = "true" /\ fw_sleeps = 0)
        /\ fw_ret = "false" => (IntTruthy(fw_timeout) /\ fw_now >= fw_deadline)

\* wait returned True from a poll begun after the deadline
C25_LatePoll ==
    /\ fw_pc = "done"
    /\ fw_ret = "true"
    /\ fw_started > fw_deadline
    /\ IntTruthy(fw_timeout) /\ fw_timeout.n > 0

\* C27: wait terminates for every timeout_sec, 0 and None included: also
\* when a listed file never appears the call comes to an end.
C27_WaitTerminates == <>(fw_pc = "done")

\* the part of C27 that holds: with a timeout_sec other than 0 and None the
\* call comes to an end
C27_TruthyTimeoutTerminates == IntTruthy(fw_timeout) => <>(fw_pc = "done")

(***************************************************************************)
(* ResultsReader (io.py)                                                   *)
(*                                                                         *)
(* The output directory is what os.listdir returns, in its order: entries  *)
(* of a file name and what is there (an artifact as above).  It does not   *)
(* change while read() runs.                                               *)
(***************************************************************************)
EndsWith(s, suf) ==
    /\ Len(s) >= Len(suf)
    /\ SubSeq(s, Len(s) - Len(suf) + 1, Len(s)) = suf

NotADir == [isdir |-> FALSE, entries |-> <<>>]

Listing(entries) == [isdir |-> TRUE, entries |-> entries]

\* os.path.exists(os.path.join(self.output_dir, name))
Listed(dir, name) == \E i \in 1..Len(dir.entries) : dir.entries[i].name = name

\* what is at os.path.join(self.output_dir, name)
ArtOf(dir, name) ==
    dir.entries[CHOOSE i \in 1..Len(dir.entries) : dir.entries[i].name = name].art

\* fn.lower().endswith(".csv") and f"_{endpoint}" in fn
NameMatches(fn, endpoint) ==
    /\ EndsWith(Lower(fn), S_csv)
    /\ Contains(fn, <<"_">> \o endpoint)

\* ResultsReader._find_endpoint_file: the first listed name that matches,
\* else the exact name <endpoint>.csv when it exists, else None
find_endpoint_file(dir, endpoint) ==
    IF ~dir.isdir THEN NoneV
    ELSE LET hits == { i \in 1..Len(dir.entries) : NameMatches(dir.entries[i].name, endpoint) }
         IN  IF hits # {}
             THEN Str(dir.entries[MinOf(hits)].name)
             ELSE IF Listed(dir, endpoint \o S_csv)
                  THEN Str(endpoint \o S_csv)
                  ELSE NoneV

\* FileWaiter(files, timeout_sec=wait_timeout).wait() on files that do not
\* change: True at the first poll when all are ready, else False once the
\* timeout is over, else (timeout 0) no return
WaitOutcome(dir, files, timeout) ==
    IF \A n \in files : PathReady(FileState(ArtOf(dir, n))) THEN "true"
    ELSE IF TimedOut(IntOf(timeout), 2 * timeout, 2 * timeout) THEN "false"
    ELSE "hang"

\* the row loop of read() adding no molecule: rows of an Index not seen
\* before are skipped
RECURSIVE ReadRows_KnownOnly(_, _, _, _)
ReadRows_KnownOnly(map, rows, i, ep) ==
    IF i > Len(rows) THEN [raised |-> FALSE, map |-> map]
    ELSE LET idx == MolIdx(rows[i])
             r == from_row_data(rows[i], DescName(ep))
         IN  IF r.raised THEN [raised |-> TRUE, map |-> map]
             ELSE IF MolKnown(map, idx)
                  THEN ReadRows_KnownOnly(SetProperty(map, idx, ep, r.res), rows, i + 1, ep)
                  ELSE ReadRows_KnownOnly(map, rows, i + 1, ep)

\* for row in parsed["data"]: idx = int(row.get("Index", 0)) (0 when int()
\* raises); molecules[idx] created when new; molecules[idx].properties[ep] =
\* from_row_data(row, desc).  raised when from_row_data raised.
RECURSIVE ReadRows(_, _, _, _)
ReadRows(map, rows, i, ep) ==
    IF i > Len(rows) THEN [raised |-> FALSE, map |-> map]
    ELSE LET idx == MolIdx(rows[i])
             m2 == IF MolKnown(map, idx) THEN map
                   ELSE Append(map, [idx |-> idx, smiles |-> NoneV, properties |-> <<>>])
             r == from_row_data(rows[i], DescName(ep))
         IN  IF r.raised THEN [raised |-> TRUE, map |-> m2]
             ELSE ReadRows(SetProperty(m2, idx, ep, r.res), rows, i + 1, ep)

\* if not molecules: molecules[0] = MoleculeResult(smiles=None, properties={})
WithPlaceholder(map) ==
    IF map = <<>> THEN <<[idx |-> 0, smiles |-> NoneV, properties |-> <<>>]>> ELSE map

\* the body of the loop over ep_to_path.items() for one endpoint
ReadOne(map, ep, path, dir) ==
    IF Truthy(path) /\ Listed(dir, path.s)
    THEN LET parsed == try_parse_csv(ArtOf(dir, path.s))
         IN  IF parsed.type = "csv" THEN ReadRows(map, parsed.rows, 1, ep)
             ELSE IF parsed.type = "text"
                  THEN [raised |-> FALSE, map |-> SetAll(map, ep, BlobResult(ep, parsed))]
             ELSE [raised |-> FALSE,
                   map |-> SetAll(map, ep, ExceptionResult(ep, parsed.error))]
    ELSE [raised |-> FALSE, map |-> SetAll(WithPlaceholder(map), ep, MissingResult(ep))]

\* for ep, path in ep_to_path.items(): ... from position k on, when no row
\* raises
RECURSIVE ReadAll(_, _, _, _, _)
ReadAll(map, eps, paths, dir, k) ==
    IF k > Len(eps) THEN map
    ELSE ReadAll(ReadOne(map, eps[k], paths[k], dir).map, eps, paths, dir, k + 1)

(***************************************************************************)
(* Specification SpecRead: read() over 1..MaxReadEps endpoints of          *)
(* ReadEndpoints in every order, on a directory listing of up to           *)
(* MaxEntries of the names below in every order, each being one of         *)
(* ReadArts, or on a path that is no directory; wait_timeout 0 or 1.       *)
(***************************************************************************)
MaxReadEps == 2

MaxEntries == 2

ReadEndpoints == {E_LC50, E_LC50DM, E_BP}

\* propiedad<uid>_LC50.csv, propiedad<uid>_LC50DM.csv as prepare_jobs names
\* them, and BP.csv
ReadNames ==
    { OutFilename(<<"a", "1">>, E_LC50), OutFilename(<<"a", "1">>, E_LC50DM), E_BP \o S_csv }

TableTwo == File(<<H_IndexPred, <<<<"1">>, <<"2", ".", "5">>>>, <<<<"2">>, <<"5", ".", "0">>>>>>)

TableDup ==
    File(<<H_IndexPred, <<<<"1">>, <<"3", ".", "1", "4">>>>, <<<<"x">>, <<"2", ".", "5">>>>,
           <<<<"1">>, <<"7">>>>>>)

TableExtra ==
    File(<<H_IndexPredError, <<<<"1">>, <<"n", "/", "a">>, <<"b", "a", "d">>, <<"e", "x", "t", "r", "a">>>>>>)

ReadArts ==
    { TableTwo, TableDup, TableExtra, Unreadable, File(<<>>),
      File(<<<<<<"n", "o", " ", "r", "e", "s", "u", "l", "t", "s">>>>>>) }

DistinctSeqs(S, n) ==
    { q \in UNION { [1..m -> S] : m \in 0..n } : \A a, b \in 1..Len(q) : a # b => q[a] # q[b] }

ReadDirs ==
    {NotADir} \cup
    UNION { { Listing([i \in 1..Len(ns) |-> [name |-> ns[i], art |-> arts[i]]]) :
                arts \in [1..Len(ns) -> ReadArts] } : ns \in DistinctSeqs(ReadNames, MaxEntries) }

InitRead ==
    /\ rr_dir \in ReadDirs
    /\ rr_eps \in DistinctSeqs(ReadEndpoints, MaxReadEps) \ {<<>>}
    /\ rr_timeout \in {0, 1}
    /\ rr_pc = "start"
    /\ rr_i = 0
    /\ rr_paths = <<>>
    /\ rr_ready = FALSE
    /\ rr_map = <<>>
    /\ rr_final = <<>>
    /\ FrIdle /\ PjIdle /\ ExIdle /\ RcIdle /\ MnIdle /\ FwIdle

\* for ep in endpoints: p = self._find_endpoint_file(ep); ep_to_path[ep] = p
ReadFinds ==
    /\ rr_pc = "start"
    /\ rr_paths' = [k \in 1..Len(rr_eps) |-> find_endpoint_file(rr_dir, rr_eps[k])]
    /\ rr_pc' = "found"
    /\ UNCHANGED <<rr_dir, rr_eps, rr_timeout, rr_i, rr_ready, rr_map, rr_final>>
    /\ UNCHANGED <<fr_vars, pj_vars, ex_vars, rc_vars, mn_vars, fw_vars>>

\* files: the paths found
FoundFiles == { rr_paths[k].s : k \in { j \in 1..Len(rr_paths) : Truthy(rr_paths[j]) } }

\* all_ready = waiter.wait() if files else True; molecules = {}
ReadWaits ==
    /\ rr_pc = "found"
    /\ WaitOutcome(rr_dir, FoundFiles, rr_timeout) # "hang"
    /\ rr_ready' = (WaitOutcome(rr_dir, FoundFiles, rr_timeout) = "true")
    /\ rr_pc' = "waited"
    /\ rr_i' = 1
    /\ UNCHANGED <<rr_dir, rr_eps, rr_timeout, rr_paths, rr_map, rr_final>>
    /\ UNCHANGED <<fr_vars, pj_vars, ex_vars, rc_vars, mn_vars, fw_vars>>

\* waiter.wait() never returns
ReadHangs ==
    /\ rr_pc = "found"
    /\ WaitOutcome(rr_dir, FoundFiles, rr_timeout) = "hang"
    /\ rr_pc' = "hung"
    /\ UNCHANGED <<rr_dir, rr_eps, rr_timeout, rr_i, rr_paths, rr_ready, rr_map, rr_final>>
    /\ UNCHANGED <<fr_vars, pj_vars, ex_vars, rc_vars, mn_vars, fw_vars>>

\* one endpoint of the loop over ep_to_path.items()
ReadEndpoint ==
    /\ rr_pc = "waited"
    /\ rr_i <= Len(rr_eps)
    /\ ~ReadOne(rr_map, rr_eps[rr_i], rr_paths[rr_i], rr_dir).raised
    /\ rr_map' = ReadOne(rr_map, rr_eps[rr_i], rr_paths[rr_i], rr_dir).map
    /\ rr_i' = rr_i + 1
    /\ UNCHANGED <<rr_dir, rr_eps, rr_timeout, rr_pc, rr_paths, rr_ready, rr_final>>
    /\ UNCHANGED <<fr_vars, pj_vars, ex_vars, rc_vars, mn_vars, fw_vars>>

\* from_row_data raises on a row: nothing catches it, read() raises
ReadRaises ==
    /\ rr_pc = "waited"
    /\ rr_i <= Len(rr_eps)
    /\ ReadOne(rr_map, rr_eps[rr_i], rr_paths[rr_i], rr_dir).raised
    /\ rr_map' = ReadOne(rr_map, rr_eps[rr_i], rr_paths[rr_i], rr_dir).map
    /\ rr_pc' = "raised"
    /\ UNCHANGED <<rr_dir, rr_eps, rr_timeout, rr_i, rr_paths, rr_ready, rr_final>>
    /\ UNCHANGED <<fr_vars, pj_vars, ex_vars, rc_vars, mn_vars, fw_vars>>

\* ordered = [molecules[k] for k in sorted(molecules.keys())]; return result
ReadReturns ==
    /\ rr_pc = "waited"
    /\ rr_i > Len(rr_eps)
    /\ rr_final' = Ordered(rr_map)
    /\ rr_pc' = "built"
    /\ UNCHANGED <<rr_dir, rr_eps, rr_timeout, rr_i, rr_paths, rr_ready, rr_map>>
    /\ UNCHANGED <<fr_vars, pj_vars, ex_vars, rc_vars, mn_vars, fw_vars>>

NextRead ==
    \/ ReadFinds
    \/ ReadWaits
    \/ ReadHangs
    \/ ReadEndpoint
    \/ ReadRaises
    \/ ReadReturns

SpecRead == InitRead /\ [][NextRead]_vars

(***************************************************************************)
(* Claims about ResultsReader                                              *)
(***************************************************************************)
\* the data rows of the k-th endpoint's file, <<>> when none was found or it
\* is not a table
RowsOf(k) ==
    IF Truthy(rr_paths[k]) /\ try_parse_csv(ArtOf(rr_dir, rr_paths[k].s)).type = "csv"
    THEN try_parse_csv(ArtOf(rr_dir, rr_paths[k].s)).rows
    ELSE <<>>

\* the molecule of Index idx has, for the k-th endpoint, the classified row
EntryIsRow(k, row) ==
    \E m \in 1..Len(rr_map) :
        /\ rr_map[m].idx = MolIdx(row)
        /\ HasProp(rr_map[m].properties, rr_eps[k])
        /\ PropOf(rr_map[m].properties, rr_eps[k]) = from_row_data(row, DescName(rr_eps[k])).res

\* the molecules returned are those of the map in ascending Index order
AscendingIndex ==
    /\ Len(rr_final) = Len(rr_map)
    /\ \A m \in 1..Len(rr_map) :
           LET rank == Cardinality({ j \in 1..Len(rr_map) : rr_map[j].idx < rr_map[m].idx }) + 1
           IN  /\ rr_final[rank].properties = rr_map[m].properties
               /\ rr_final[rank].smiles = rr_map[m].smiles

\* C26 as stated: read returns, for every data row of an endpoint's CSV
\* file, a molecule for that row's Index whose entry for the endpoint is that
\* row classified by from_row_data, the molecules in ascending Index order.
C26_Original ==
    rr_pc = "built" =>
        /\ \A k \in 1..Len(rr_eps) :
               \A r \in 1..Len(RowsOf(k)) : EntryIsRow(k, RowsOf(k)[r])
        /\ AscendingIndex

\* row r is the last row of its file with its Index
LastOfIndex(rows, r) ==
    \A q \in (r + 1)..Len(rows) : MolIdx(rows[q]) # MolIdx(rows[r])

\* C26 amended: when read returns, every data row has a molecule for its
\* Index (a missing or non-integer Index counting as 0), and the entry of
\* that molecule for the endpoint is the classification of the last row of
\* the file that carries this Index; the molecules are in ascending Index
\* order.
C26_Amended ==
    rr_pc = "built" =>
        /\ \A k \in 1..Len(rr_eps) :
               \A r \in 1..Len(RowsOf(k)) :
                   /\ MolKnown(rr_map, MolIdx(RowsOf(k)[r]))
                   /\ LastOfIndex(RowsOf(k), r) => EntryIsRow(k, RowsOf(k)[r])
        /\ AscendingIndex

\* read returned for a table with two rows of Index 1 and a row whose Index
\* is no integer: the molecules are 0 and 1, in that order, and molecule 1
\* has the value of the later row
C26_Witness ==
    /\ rr_pc = "built"
    /\ \E k \in 1..Len(rr_eps) :
          /\ Len(RowsOf(k)) = 3
          /\ ~LastOfIndex(RowsOf(k), 1)
          /\ Len(rr_final) = 2
          /\ PropOf(rr_final[2].properties, rr_eps[k]) = from_row_data(RowsOf(k)[3], DescName(rr_eps[k])).res
          /\ PropOf(rr_final[1].properties, rr_eps[k]) = from_row_data(RowsOf(k)[2], DescName(rr_eps[k])).res

\* the k-th endpoint's file is missing, unreadable or a text blob
MarkerCase(k) ==
    \/ ~Truthy(rr_paths[k])
    \/ try_parse_csv(ArtOf(rr_dir, rr_paths[k].s)).type \in {"text", "error"}

\* some row of some endpoint's table carries this Index
FromRealRow(idx) ==
    \E k \in 1..Len(rr_eps) : \E r \in 1..Len(RowsOf(k)) : MolIdx(RowsOf(k)[r]) = idx

\* read() taking the endpoints in order f
ReadInOrder(f) ==
    Ordered(ReadAll(<<>>, [k \in 1..Len(rr_eps) |-> rr_eps[f[k]]],
                    [k \in 1..Len(rr_eps) |-> rr_paths[f[k]]], rr_dir, 1))

\* C28: the result of read does not depend on the iteration order of
\* endpoints_desc: every molecule returned carries the marker entry of every
\* endpoint whose file is missing, unreadable or a text blob, no molecule is
\* a placeholder when some endpoint supplies rows, and every other order of
\* the endpoints gives the same grid.
C28_ReadOrderIndependent ==
    rr_pc = "built" =>
        /\ \A k \in 1..Len(rr_eps) :
               MarkerCase(k) =>
                   \A m \in 1..Len(rr_map) : HasProp(rr_map[m].properties, rr_eps[k])
        /\ (\E k \in 1..Len(rr_eps) : RowsOf(k) # <<>>) =>
               \A m \in 1..Len(rr_map) : FromRealRow(rr_map[m].idx)
        /\ \A f \in Orders(Len(rr_eps)) : GridOf(ReadInOrder(f)) = GridOf(rr_final)

\* the part of C28 that holds: a molecule that has a row from an endpoint
\* processed earlier carries the marker of a later endpoint whose file is
\* missing, unreadable or a text blob
C28_MarkersOnEarlierMolecules ==
    rr_pc = "built" =>
        \A k \in 1..Len(rr_eps) :
            MarkerCase(k) =>
                \A m \in 1..Len(rr_map) :
                    (\E j \in 1..(k - 1) : \E r \in 1..Len(RowsOf(j)) :
                         MolIdx(RowsOf(j)[r]) = rr_map[m].idx)
                        => HasProp(rr_map[m].properties, rr_eps[k])

\* the file resolved for an endpoint is one written for it: the name
\* prepare_jobs gives its artifact, or <endpoint>.csv
WrittenFor(name, ep) ==
    \/ \E uid \in Uids : name = OutFilename(uid, ep)
    \/ name = ep \o S_csv

\* C29: _find_endpoint_file returns for endpoint E only a file written for
\* E; with the artifacts of LC50 and LC50DM in the directory, in either
\* listing order, the file resolved for LC50 is not the artifact of LC50DM.
C29_FindsOwnFile ==
    rr_pc # "start" =>
        \A k \in 1..Len(rr_eps) :
            Truthy(rr_paths[k]) => WrittenFor(rr_paths[k].s, rr_eps[k])

\* the part of C29 that holds: the file resolved is listed in the directory,
\* and it either ends in .csv and holds "_" and the identifier, or is
\* <endpoint>.csv; an endpoint whose own artifact is listed gets a file
C29_FindsAMatch ==
    rr_pc # "start" =>
        \A k \in 1..Len(rr_eps) :
            /\ Truthy(rr_paths[k]) =>
                   /\ Listed(rr_dir, rr_paths[k].s)
                   /\ \/ NameMatches(rr_paths[k].s, rr_eps[k])
                      \/ rr_paths[k].s = rr_eps[k] \o S_csv
            /\ (\E uid \in Uids : Listed(rr_dir, OutFilename(uid, rr_eps[k])))
                   => Truthy(rr_paths[k])

(***************************************************************************)
(* Claims about the structured case of the reconciliation                  *)
(***************************************************************************)
\* the data rows of the k-th outcome's artifact when it parses as a table
TableRows(k) ==
    IF rc_disk[k].kind = "file" /\ FirstLineHasComma(rc_disk[k].lines)
    THEN DictReader(rc_disk[k].lines)
    ELSE <<>>

\* the rows of the k-th table that carry the Index of molecule i
RowsFor(k, i) == { r \in 1..Len(TableRows(k)) : MolIdx(TableRows(k)[r]) = i }

MaxOf(S) == CHOOSE x \in S : \A y \in S : y <= x

\* molecule i has an entry for the k-th endpoint exactly when a row carries
\* its Index, and the entry is the classification of the last such row
EntryFromLastRow(k, i) ==
    /\ HasProp(MolAt(i).properties, rc_results[k].endpoint) <=> RowsFor(k, i) # {}
    /\ RowsFor(k, i) # {} =>
           PropOf(MolAt(i).properties, rc_results[k].endpoint)
               = from_row_data(TableRows(k)[MaxOf(RowsFor(k, i))],
                               DescName(rc_results[k].endpoint)).res

\* C31 as stated: for an endpoint whose artifact parses as a table with at
\* least one data row, a molecule has an entry for the endpoint if and only
\* if some row's Index is the molecule's index, the entry coming from the
\* last such row, and a molecule with no row has no entry at all.
C31_Original ==
    \A k \in 1..Len(rc_results) :
        (Processed(k) /\ TableRows(k) # <<>>) =>
            \A i \in 1..Len(rc_smiles) : EntryFromLastRow(k, i)

\* from_row_data raises on a row of the k-th table that carries the Index
\* of a molecule of the batch
SomeRowRaises(k) ==
    \E r \in 1..Len(TableRows(k)) :
        /\ MolIdx(TableRows(k)[r]) \in 1..Len(rc_smiles)
        /\ from_row_data(TableRows(k)[r], DescName(rc_results[k].endpoint)).raised

\* C31 amended: the statement holds for a table none of whose rows makes
\* from_row_data raise (an Index that is missing or no integer counting as
\* 0, which no molecule has); when a row of a molecule of the batch makes it
\* raise, every molecule of the batch, with or without a row, has for the
\* endpoint the entry of the parse-exception case: no value, an error text
\* and no raw_data.
C31_Amended ==
    \A k \in 1..Len(rc_results) :
        (Processed(k) /\ TableRows(k) # <<>>) =>
            IF SomeRowRaises(k)
            THEN \A i \in 1..Len(rc_smiles) :
                    /\ HasProp(MolAt(i).properties, rc_results[k].endpoint)
                    /\ PropOf(MolAt(i).properties, rc_results[k].endpoint).value = NoFloat
                    /\ ~PropOf(MolAt(i).properties, rc_results[k].endpoint).error.none
                    /\ PropOf(MolAt(i).properties, rc_results[k].endpoint).raw_data = RawNone
            ELSE \A i \in 1..Len(rc_smiles) : EntryFromLastRow(k, i)

\* a table with two different rows of Index 1 was reconciled into a batch of
\* two molecules: molecule 1 has the entry of the second row, molecule 2 has
\* no entry for the endpoint
C31_Witness ==
    /\ rc_pc = "built"
    /\ Len(rc_smiles) = 2
    /\ RowsFor(1, 1) = {1, 2}
    /\ ~SomeRowRaises(1)
    /\ from_row_data(TableRows(1)[1], DescName(rc_results[1].endpoint)).res
           # from_row_data(TableRows(1)[2], DescName(rc_results[1].endpoint)).res
    /\ PropOf(rc_final[1].properties, rc_results[1].endpoint)
           = from_row_data(TableRows(1)[2], DescName(rc_results[1].endpoint)).res
    /\ ~HasProp(rc_final[2].properties, rc_results[1].endpoint)

\* C32: an artifact that is a table with a header line and no data row is
\* not handled as the structured case: every molecule of the batch has for
\* the endpoint an entry with value None and error None whose raw_data is
\* the parsed payload (type csv, no rows), not the missing marker.
C32_HeaderOnlyTable ==
    \A k \in 1..Len(rc_results) :
        (/\ Processed(k)
         /\ rc_disk[k].kind = "file"
         /\ FirstLineHasComma(rc_disk[k].lines)
         /\ TableRows(k) = <<>>) =>
            \A i \in 1..Len(rc_smiles) :
                /\ HasProp(MolAt(i).properties, rc_results[k].endpoint)
                /\ PropOf(MolAt(i).properties, rc_results[k].endpoint).value = NoFloat
                /\ PropOf(MolAt(i).properties, rc_results[k].endpoint).error = NoneV
                /\ PropOf(MolAt(i).properties, rc_results[k].endpoint).raw_data.kind = "csv"
                /\ PropOf(MolAt(i).properties, rc_results[k].endpoint).raw_data.rows = <<>>
                /\ PropOf(MolAt(i).properties, rc_results[k].endpoint).raw_data # RawMissing

\* a table made of its header line and a blank line was reconciled into a
\* batch of two molecules, both of which have the entry
C32_Witness ==
    /\ rc_pc = "built"
    /\ Len(rc_smiles) = 2
    /\ \E k \in 1..Len(rc_results) :
          /\ rc_disk[k].kind = "file"
          /\ Len(rc_disk[k].lines) = 2
          /\ FirstLineHasComma(rc_disk[k].lines)
          /\ TableRows(k) = <<>>
          /\ PropOf(rc_final[2].properties, rc_results[k].endpoint).raw_data.kind = "csv"

====
